---- MODULE Spec2Model ----
(***************************************************************************)
(* A model of the BrewJS tree-walking evaluator (brewjs/interpreter.py,    *)
(* brewjs/runtime.py) and of the embedder's run function (main.py).        *)
(*                                                                         *)
(* The evaluator is recursive Python; its methods are translated one by    *)
(* one into recursive operators that thread the interpreter state through  *)
(* the evaluation and return the Python outcome (normal completion or the  *)
(* exception being raised) as a value.  The state machine is the loop of   *)
(* Interpreter.interpret: one step executes the next top-level statement.  *)
(***************************************************************************)
EXTENDS Integers, Sequences, FiniteSets, TLC

VARIABLES
    mode,       \* which family of programs this behaviour draws from
    program,    \* the top-level statements executed so far
    st,         \* the Interpreter object: environment, frames, history
    result,     \* outcome of Interpreter.interpret
    exitcode,   \* outcome of main.run
    last        \* the last operation of the scoping scenario and its outcome

vars == <<mode, program, st, result, exitcode, last>>

(***************************************************************************)
(* Bounds                                                                  *)
(***************************************************************************)
MaxStmts == 6      \* top-level statements of a multi-statement program
MaxEnvs == 2       \* Environment objects below the globals in the scoping scenario
MaxOps == 3        \* operations on shared containers after their declarations
MaxPieces == 4     \* pieces of text a source handed to the lexer is made of
MaxTokens == 2     \* tokens of a token list drawn freely from the vocabulary
MaxOperators == 3  \* binary operators of an expression handed to the parser

(***************************************************************************)
(* Python None, source spans, runtime values                               *)
(***************************************************************************)
None == [type |-> "None"]
NoName == ""
NoEnv == 0

SourceSpan(line, column) == [line |-> line, column |-> column]

Null == [k |-> "null"]
BoolV(b) == [k |-> "bool", b |-> b]
IntV(n) == [k |-> "int", n |-> n]
StrV(s) == [k |-> "str", s |-> s]
HostObject(name) == [k |-> "object", host |-> name]

\* A Python float.  The model's floats are the dyadic rationals num/den (den a
\* power of two, the fraction in lowest terms), which the host's arithmetic
\* treats exactly; -0.0 is not told apart from 0.0.
FloatV(num, den) == [k |-> "float", num |-> num, den |-> den]

\* A Python list or dict made by a literal: the identity of the object in
\* the heap of containers.
ArrayV(ref) == [k |-> "array", ref |-> ref]
DictV(ref) == [k |-> "dict", ref |-> ref]
NewList(elems) == [kind |-> "list", elems |-> elems]
NewDict(entries) == [kind |-> "dict", entries |-> entries]

\* NativeFunction(name, arity, func).  arity None is NoArity; func is known
\* by the name, the list it is bound to (recv) and the identity of the
\* lambda object (id, 0 for the host's own functions).
NoArity == -1
NativeFunction(name, arity, recv, id) ==
    [k |-> "native", name |-> name, arity |-> arity, recv |-> recv, id |-> id]

FunctionValue(name, params, body, closure, span) ==
    [k |-> "function", name |-> name, params |-> params, body |-> body,
     closure |-> closure, span |-> span]

(***************************************************************************)
(* Exceptions of runtime.py, and the host's own exceptions                 *)
(***************************************************************************)
Normal == [t |-> "normal"]
BrewRuntimeError(message, span) ==
    [t |-> "BrewRuntimeError", message |-> message, span |-> span]
BrewReturn(value) == [t |-> "BrewReturn", value |-> value]
BrewThrow(value, span) == [t |-> "BrewThrow", value |-> value, span |-> span]
PyError(name) == [t |-> "PyError", exc |-> name]

Ok(s, v) == [st |-> s, sig |-> Normal, val |-> v]
Raise(s, sig) == [st |-> s, sig |-> sig, val |-> Null]

\* Sequencing: a result is computed once and handed on; an exception raised
\* by the first step propagates past what would have followed it.
Bind(r, K(_)) == K(r)
Then(r, K(_)) == IF r.sig.t /= "normal" THEN r ELSE K(r)

Log(s, e) == [s EXCEPT !.trace = Append(@, e)]

(***************************************************************************)
(* AST nodes (ast_nodes.py)                                                *)
(***************************************************************************)
Identifier(name, span) == [type |-> "Identifier", name |-> name, span |-> span]
Literal(value, span) == [type |-> "Literal", value |-> value, span |-> span]
ArrayLiteral(items, span) == [type |-> "ArrayLiteral", items |-> items, span |-> span]
ObjectLiteral(pairs, span) == [type |-> "ObjectLiteral", pairs |-> pairs, span |-> span]
UnaryExpr(op, right, span) == [type |-> "UnaryExpr", op |-> op, right |-> right, span |-> span]
MemberExpr(obj, name, span) == [type |-> "MemberExpr", obj |-> obj, name |-> name, span |-> span]
IndexExpr(obj, index, span) == [type |-> "IndexExpr", obj |-> obj, index |-> index, span |-> span]
BinaryExpr(left, op, right, span) ==
    [type |-> "BinaryExpr", left |-> left, op |-> op, right |-> right, span |-> span]
AssignExpr(target, value, span) ==
    [type |-> "AssignExpr", target |-> target, value |-> value, span |-> span]
CallExpr(callee, args, span) ==
    [type |-> "CallExpr", callee |-> callee, args |-> args, span |-> span]
FunctionExpr(name, params, body, span) ==
    [type |-> "FunctionExpr", name |-> name, params |-> params, body |-> body,
     span |-> span]
ExpressionStmt(expr, span) == [type |-> "ExpressionStmt", expr |-> expr, span |-> span]
VarDecl(name, initializer, span) ==
    [type |-> "VarDecl", name |-> name, initializer |-> initializer, span |-> span]
BlockStmt(statements, span) ==
    [type |-> "BlockStmt", statements |-> statements, span |-> span]
IfStmt(condition, then_branch, else_branch, span) ==
    [type |-> "IfStmt", condition |-> condition, then_branch |-> then_branch,
     else_branch |-> else_branch, span |-> span]
WhileStmt(condition, body, span) ==
    [type |-> "WhileStmt", condition |-> condition, wbody |-> body, span |-> span]
ReturnStmt(value, span) == [type |-> "ReturnStmt", value |-> value, span |-> span]
TryStmt(try_block, catch_name, catch_block, finally_block, span) ==
    [type |-> "TryStmt", try_block |-> try_block, catch_name |-> catch_name,
     catch_block |-> catch_block, finally_block |-> finally_block, span |-> span]
ThrowStmt(value, span) == [type |-> "ThrowStmt", value |-> value, span |-> span]

(***************************************************************************)
(* Environment (runtime.py).  Environment objects live in a heap, a        *)
(* sequence indexed by object identity; parent is an identity or NoEnv.    *)
(***************************************************************************)
NoValues == [n \in {} |-> Null]

\* Environment.__init__: a new object with no values and the given parent.
Environment(frames, parent) == Append(frames, [values |-> NoValues, parent |-> parent])

\* Environment.define: self.values[name] = value
define(frames, env, name, value) ==
    [frames EXCEPT ![env].values = (name :> value) @@ @]

RECURSIVE assign_local(_, _, _, _), assign_implicit(_, _, _, _), get_outermost(_, _, _)
\* An assign that never looks further than the frame it is called on.
assign_local(frames, env, name, value) ==
    [sig |-> Normal, frames |-> define(frames, env, name, value)]

\* An assign that declares an unbound name in the outermost frame.
assign_implicit(frames, env, name, value) ==
    IF name \in DOMAIN frames[env].values
    THEN [sig |-> Normal, frames |-> [frames EXCEPT ![env].values[name] = value]]
    ELSE IF frames[env].parent /= NoEnv
    THEN assign_implicit(frames, frames[env].parent, name, value)
    ELSE [sig |-> Normal, frames |-> define(frames, env, name, value)]

\* A get that prefers the binding of the outermost frame.
get_outermost(frames, env, name) ==
    LET outer == IF frames[env].parent /= NoEnv
                 THEN get_outermost(frames, frames[env].parent, name)
                 ELSE [sig |-> BrewRuntimeError([text |-> "Undefined variable",
                                                 name |-> name], None),
                       val |-> Null]
    IN  IF outer.sig.t = "normal" THEN outer
        ELSE IF name \in DOMAIN frames[env].values
        THEN [sig |-> Normal, val |-> frames[env].values[name]]
        ELSE outer

RECURSIVE assign(_, _, _, _)
\* Environment.assign: the outcome and the heap after it.
assign(frames, env, name, value) ==
    IF name \in DOMAIN frames[env].values
    THEN [sig |-> Normal, frames |-> [frames EXCEPT ![env].values[name] = value]]
    ELSE IF frames[env].parent /= NoEnv
    THEN assign(frames, frames[env].parent, name, value)
    ELSE [sig |-> BrewRuntimeError([text |-> "Undefined variable", name |-> name], None),
          frames |-> frames]

RECURSIVE get(_, _, _)
\* Environment.get: the outcome and the value returned.
get(frames, env, name) ==
    IF name \in DOMAIN frames[env].values
    THEN [sig |-> Normal, val |-> frames[env].values[name]]
    ELSE IF frames[env].parent /= NoEnv
    THEN get(frames, frames[env].parent, name)
    ELSE [sig |-> BrewRuntimeError([text |-> "Undefined variable", name |-> name], None),
          val |-> Null]

(***************************************************************************)
(* Interpreter (interpreter.py).  An interpreter state s has the fields    *)
(*   environment  self.environment, the identity of the current frame      *)
(*   frames       the heap of Environment objects                          *)
(*   heap         the lists and dicts made by array and object literals    *)
(*   nlambda      lambda objects made by _get_member so far                *)
(*   trace        history of the evaluation (never read by the evaluator)  *)
(*   nact, depth  try statements entered so far; user calls in progress    *)
(* Every operator returns [st, sig, val]: the state after the call, the    *)
(* exception raised (or Normal) and the value returned.                    *)
(***************************************************************************)
HostGlobals == {"console", "thread"}

\* builtins.default_globals: the names the host installs (two stand for all).
default_globals == [n \in HostGlobals |-> HostObject(n)]

\* isinstance(value, (int, float)): Python's bool is an int.
IsNumber(v) == v.k \in {"int", "bool", "float"}
\* The integer an int or a bool stands for.
NumberOf(v) == IF v.k = "int" THEN v.n ELSE IF v.b THEN 1 ELSE 0
\* A host number as the fraction NumOf / DenOf.
NumOf(v) == IF v.k = "float" THEN v.num ELSE NumberOf(v)
DenOf(v) == IF v.k = "float" THEN v.den ELSE 1

Abs(n) == IF n < 0 THEN -n ELSE n

RECURSIVE GCD(_, _)
GCD(a, b) == IF b = 0 THEN a ELSE GCD(b, a % b)

\* The float num/den (den /= 0) in lowest terms with a positive denominator.
PyFloat(num, den) ==
    LET n == IF den < 0 THEN -num ELSE num
        d == Abs(den)
        g == GCD(Abs(n), d)
    IN  FloatV(n \div g, d \div g)

\* Python's floor division and the modulo that goes with it (b /= 0).
FloorDiv(a, b) == IF b > 0 THEN a \div b ELSE (-a) \div (-b)
PyMod(a, b) == a - b * FloorDiv(a, b)

\* left + right, left - right, left * right of two host numbers: a float
\* when either operand is one, an int otherwise.
PyArith(op, left, right) ==
    LET ln == NumOf(left)
        ld == DenOf(left)
        rn == NumOf(right)
        rd == DenOf(right)
        num == CASE op = "+" -> ln * rd + rn * ld
                 [] op = "-" -> ln * rd - rn * ld
                 [] op = "*" -> ln * rn
    IN  IF left.k = "float" \/ right.k = "float"
        THEN PyFloat(num, ld * rd)
        ELSE IntV(num)

\* left / right of two host numbers: true division, always a float.
PyTrueDiv(left, right, s) ==
    IF NumOf(right) = 0 THEN Raise(s, PyError("ZeroDivisionError"))
    ELSE Ok(s, PyFloat(NumOf(left) * DenOf(right), DenOf(left) * NumOf(right)))

\* left % right of two host numbers: the sign follows the divisor.
PyModulo(left, right, s) ==
    IF NumOf(right) = 0 THEN Raise(s, PyError("ZeroDivisionError"))
    ELSE IF left.k = "float" \/ right.k = "float"
    THEN Ok(s, PyFloat(PyMod(NumOf(left) * DenOf(right), NumOf(right) * DenOf(left)),
                       DenOf(left) * DenOf(right)))
    ELSE Ok(s, IntV(PyMod(NumOf(left), NumOf(right))))

\* Interpreter.is_truthy: bool(value).  A list or a dict is true when it is
\* not empty; an object without __bool__ and __len__ is true.
is_truthy(value, heap) ==
    CASE value.k = "null" -> FALSE
      [] value.k = "bool" -> value.b
      [] value.k = "int" -> value.n /= 0
      [] value.k = "float" -> value.num /= 0
      [] value.k = "str" -> value.s /= ""
      [] value.k = "array" -> heap[value.ref].elems /= <<>>
      [] value.k = "dict" -> heap[value.ref].entries /= <<>>
      [] value.k \in {"function", "native", "object"} -> TRUE

\* Interpreter._ensure_number
_ensure_number(value, expr, s) ==
    IF IsNumber(value) THEN Ok(s, value)
    ELSE Raise(s, BrewRuntimeError([text |-> "Expected number"], expr.span))

\* left + right of the host: numbers add, two strs and two lists
\* concatenate (the list into a new list), anything else is a TypeError.
PyAdd(left, right, s) ==
    IF IsNumber(left) /\ IsNumber(right)
    THEN Ok(s, PyArith("+", left, right))
    ELSE IF left.k = "str" /\ right.k = "str"
    THEN Ok(s, StrV(left.s \o right.s))
    ELSE IF left.k = "array" /\ right.k = "array"
    THEN Ok([s EXCEPT !.heap = Append(@, NewList(s.heap[left.ref].elems
                                                  \o s.heap[right.ref].elems))],
            ArrayV(Len(s.heap) + 1))
    ELSE Raise(s, PyError("TypeError"))

RECURSIVE PyEq(_, _, _)
\* left == right of the host: numbers by value, lists and dicts by their
\* contents, dataclass instances by their fields, everything else by itself.
PyEq(left, right, heap) ==
    IF IsNumber(left) /\ IsNumber(right)
    THEN NumOf(left) * DenOf(right) = NumOf(right) * DenOf(left)
    ELSE IF left.k = "array" /\ right.k = "array"
    THEN LET x == heap[left.ref].elems
             y == heap[right.ref].elems
         IN  Len(x) = Len(y) /\ \A i \in DOMAIN x : PyEq(x[i], y[i], heap)
    ELSE IF left.k = "dict" /\ right.k = "dict"
    THEN LET x == heap[left.ref].entries
             y == heap[right.ref].entries
         IN  /\ Len(x) = Len(y)
             /\ \A i \in DOMAIN x : \E j \in DOMAIN y :
                    x[i].key = y[j].key /\ PyEq(x[i].val, y[j].val, heap)
    ELSE left = right

\* The strs of the model in the order of their code points.
StrOrder == <<"", "1", "a", "a1", "ab", "b">>
StrRank(str) == CHOOSE i \in DOMAIN StrOrder : StrOrder[i] = str

Ordered(op, x, y) ==
    CASE op = "<" -> x < y
      [] op = "<=" -> x <= y
      [] op = ">" -> x > y
      [] op = ">=" -> x >= y

RECURSIVE PyCompare(_, _, _, _)
\* left < right (and <=, >, >=) of the host: numbers by value, strs and
\* lists lexicographically, anything else is a TypeError.  A list compares
\* by its first differing item, or by length when there is none.
PyCompare(op, left, right, s) ==
    IF IsNumber(left) /\ IsNumber(right)
    THEN Ok(s, BoolV(Ordered(op, NumOf(left) * DenOf(right), NumOf(right) * DenOf(left))))
    ELSE IF left.k = "str" /\ right.k = "str"
    THEN Ok(s, BoolV(Ordered(op, StrRank(left.s), StrRank(right.s))))
    ELSE IF left.k = "array" /\ right.k = "array"
    THEN LET x == s.heap[left.ref].elems
             y == s.heap[right.ref].elems
             differ == {i \in DOMAIN x \cap DOMAIN y : ~PyEq(x[i], y[i], s.heap)}
         IN  IF differ = {} THEN Ok(s, BoolV(Ordered(op, Len(x), Len(y))))
             ELSE LET i == CHOOSE j \in differ : \A h \in differ : j <= h
                  IN  PyCompare(op, x[i], y[i], s)
    ELSE Raise(s, PyError("TypeError"))

(***************************************************************************)
(* Lists, dicts and strs of the host                                       *)
(***************************************************************************)
\* What a dict accepts as a key: lists, dicts and the instances of the two
\* function dataclasses (eq without frozen) have no hash.
Hashable(v) == v.k \in {"null", "bool", "int", "float", "str"}

\* Two keys are one key when they are equal: 1, 1.0 and True are.
KeyEq(x, y) ==
    IF IsNumber(x) /\ IsNumber(y)
    THEN NumOf(x) * DenOf(y) = NumOf(y) * DenOf(x)
    ELSE x = y

KeyPos(entries, key) == {i \in DOMAIN entries : KeyEq(entries[i].key, key)}

\* d[key] = value on the entries of a dict: an existing key keeps its place.
DictSet(entries, key, value) ==
    IF KeyPos(entries, key) = {} THEN Append(entries, [key |-> key, val |-> value])
    ELSE LET i == CHOOSE j \in KeyPos(entries, key) : TRUE
         IN  [entries EXCEPT ![i].val = value]

\* operator.index(v) of what a list or a str accepts as an index.
IsIndex(v) == v.k \in {"int", "bool"}

\* The position (from 1) a list or str of length n gives to the index i,
\* 0 when it gives none: a negative index counts from the end.
Slot(n, i) ==
    IF 0 <= i /\ i < n THEN i + 1
    ELSE IF -n <= i /\ i < 0 THEN n + i + 1
    ELSE 0

\* The characters of the strs of the model.
Chars(str) ==
    CASE str = "" -> <<>>
      [] str = "1" -> <<"1">>
      [] str = "a" -> <<"a">>
      [] str = "b" -> <<"b">>
      [] str = "a1" -> <<"a", "1">>
      [] str = "ab" -> <<"a", "b">>

(***************************************************************************)
(* build_thread (builtins.py).  A threading.Thread is an object of the     *)
(* heap: fn is the callable it was started on, handle the dict it reports  *)
(* to, pc the place of target the thread stands at ("started" before the   *)
(* call of fn, "returned" after it, "stored" once result or error is       *)
(* written, "ended" once done is written), and outcome and val what the    *)
(* call of fn left, held by the thread until target stores it.             *)
(***************************************************************************)
NewThread(fn, handle) ==
    [kind |-> "thread", fn |-> fn, handle |-> handle, pc |-> "started",
     outcome |-> Normal, val |-> Null]

\* d.get(key) on the entries of a dict: None when the key is absent.
DictGet(entries, key) ==
    IF KeyPos(entries, key) = {} THEN Null
    ELSE entries[CHOOSE i \in KeyPos(entries, key) : TRUE].val

\* build_thread.run: the handle is made, the thread is started on target and
\* the handle is given its join before it is returned.  The thread writes
\* only to keys the handle has from the start, so the handle returned is the
\* same whether or not the thread has run before join was added.
thread_run(args, s) ==
    LET handle == Len(s.heap) + 1
        thread == Len(s.heap) + 2
        entries == <<[key |-> StrV("done"), val |-> BoolV(FALSE)],
                     [key |-> StrV("result"), val |-> Null],
                     [key |-> StrV("error"), val |-> Null]>>
        join == NativeFunction("thread.join", 0, thread, 0)
    IN  Ok([s EXCEPT !.heap = Append(Append(@, NewDict(DictSet(entries, StrV("join"), join))),
                                     NewThread(args[1], handle))],
           DictV(handle))

\* Thread.join blocks for as long as the thread lives: until target has run
\* to its end.
is_alive(thread, s) == s.heap[thread].pc /= "ended"

\* lambda a: thread.join() or handle.get("result"), once join has returned.
thread_join(thread, s) == Ok(s, DictGet(s.heap[s.heap[thread].handle].entries, StrV("result")))

\* The members of the dicts the host installs as globals (one stands for all).
HostMembers(host) ==
    IF host = "console" THEN [n \in {"log"} |-> NativeFunction("console.log", NoArity, 0, 0)]
    ELSE IF host = "thread" THEN [n \in {"run"} |-> NativeFunction("thread.run", 1, 0, 0)]
    ELSE NoValues

\* A func that appends to a copy of the list and leaves the list itself alone.
NativeFunc_on_copy(fn, args, s) ==
    LET s1 == Log(s, [ev |-> "native", name |-> fn.name, args |-> args])
    IN  CASE fn.name = "array.push" ->
               IF args = <<>> THEN Raise(s1, PyError("IndexError"))
               ELSE Ok([s1 EXCEPT !.heap = Append(@, NewList(Append(s.heap[fn.recv].elems,
                                                                    args[1])))], Null)
          [] fn.name = "array.pop" ->
               LET elems == s.heap[fn.recv].elems IN
               IF elems = <<>> THEN Ok(s1, Null)
               ELSE Ok([s1 EXCEPT !.heap[fn.recv].elems = SubSeq(elems, 1, Len(elems) - 1)],
                       elems[Len(elems)])
          [] fn.name = "console.log" -> Ok(s1, Null)
          [] fn.name = "thread.run" -> thread_run(args, s1)
          [] fn.name = "thread.join" -> thread_join(fn.recv, s1)

\* The func of a NativeFunction applied to the list of arguments.
NativeFunc(fn, args, s) ==
    LET s1 == Log(s, [ev |-> "native", name |-> fn.name, args |-> args])
    IN  CASE fn.name = "array.push" ->
               \* lambda a: obj.append(a[0]) or None
               IF args = <<>> THEN Raise(s1, PyError("IndexError"))
               ELSE Ok([s1 EXCEPT !.heap[fn.recv].elems = Append(@, args[1])], Null)
          [] fn.name = "array.pop" ->
               \* lambda a: obj.pop() if obj else None
               LET elems == s.heap[fn.recv].elems IN
               IF elems = <<>> THEN Ok(s1, Null)
               ELSE Ok([s1 EXCEPT !.heap[fn.recv].elems = SubSeq(elems, 1, Len(elems) - 1)],
                       elems[Len(elems)])
          [] fn.name = "console.log" ->
               \* print: the text written is not modelled
               Ok(s1, Null)
          [] fn.name = "thread.run" -> thread_run(args, s1)
          [] fn.name = "thread.join" -> thread_join(fn.recv, s1)

\* NativeFunction.__call__(self, args)
NativeFunction_call(fn, args, s) ==
    IF fn.arity /= NoArity /\ Len(args) /= fn.arity
    THEN Raise(s, BrewRuntimeError(
             [text |-> "Native expected args", name |-> fn.name,
              expected |-> fn.arity, got |-> Len(args)], None))
    ELSE NativeFunc(fn, args, s)

\* fn([]) as target writes it: a call by the host, not by Interpreter._call.
\* A NativeFunction takes the list as its args.  A FunctionValue takes it as
\* its interpreter and is given no args, and what is not callable cannot be
\* called: the host raises TypeError before any code of the callee runs.
host_call(fn, args, s) ==
    CASE fn.k = "native" -> NativeFunction_call(fn, args, s)
      [] fn.k = "function" -> Raise(s, PyError("TypeError"))
      [] OTHER -> Raise(s, PyError("TypeError"))

\* str(exc): the message of the exception, known by its text or its class.
str_exc(sig) ==
    CASE sig.t = "BrewRuntimeError" -> StrV(sig.message.text)
      [] sig.t = "PyError" -> StrV(sig.exc)
      [] OTHER -> StrV(sig.t)

\* target, the call: fn([]) is evaluated; what it returns or raises is in
\* the hands of the thread.
target_call(thread, s) ==
    Bind(host_call(s.heap[thread].fn, <<>>, s), LAMBDA r :
        [r.st EXCEPT !.heap[thread].pc = "returned",
                     !.heap[thread].outcome = r.sig,
                     !.heap[thread].val = r.val])

\* A target that writes neither result nor error.
target_store_nothing(thread, s) == [s EXCEPT !.heap[thread].pc = "stored"]

\* target, the store: handle["result"] = ... or, under except Exception,
\* handle["error"] = str(exc).  Every exception of the model is an Exception.
target_store(thread, s) ==
    LET t == s.heap[thread] IN
    IF t.outcome.t = "normal"
    THEN [s EXCEPT !.heap[thread].pc = "stored",
                   !.heap[t.handle].entries = DictSet(@, StrV("result"), t.val)]
    ELSE [s EXCEPT !.heap[thread].pc = "stored",
                   !.heap[t.handle].entries = DictSet(@, StrV("error"), str_exc(t.outcome))]

\* target, its last statement: handle["done"] = True, and the thread ends.
target_done(thread, s) ==
    [s EXCEPT !.heap[thread].pc = "ended",
              !.heap[s.heap[thread].handle].entries = DictSet(@, StrV("done"), BoolV(TRUE))]

\* Interpreter._get_member
_get_member(obj, name, s) ==
    LET notfound == Raise(s, BrewRuntimeError([text |-> "Property not found",
                                               name |-> name], None))
    IN  CASE obj.k = "dict" ->
               LET entries == s.heap[obj.ref].entries
                   at == KeyPos(entries, StrV(name))
               IN  IF at = {} THEN notfound
                   ELSE Ok(s, entries[CHOOSE i \in at : TRUE].val)
          [] obj.k = "object" ->
               IF name \in DOMAIN HostMembers(obj.host)
               THEN Ok(s, HostMembers(obj.host)[name])
               ELSE notfound
          [] obj.k = "array" ->
              (CASE name = "push" ->
                      Ok([s EXCEPT !.nlambda = @ + 1],
                         NativeFunction("array.push", 1, obj.ref, s.nlambda + 1))
                 [] name = "pop" ->
                      Ok([s EXCEPT !.nlambda = @ + 1],
                         NativeFunction("array.pop", 0, obj.ref, s.nlambda + 1))
                 [] name = "length" -> Ok(s, IntV(Len(s.heap[obj.ref].elems)))
                 [] OTHER -> notfound)
          [] OTHER -> notfound

\* Interpreter._set_member
_set_member(obj, name, value, expr, s) ==
    IF obj.k = "dict"
    THEN Ok([s EXCEPT !.heap[obj.ref].entries = DictSet(@, StrV(name), value)], Null)
    ELSE CASE obj.k /= "object" ->
              Raise(s, BrewRuntimeError([text |-> "Cannot set property on non-object"],
                                        expr.span))

\* obj[index] of the host: the value, or the exception raised.
PyGetItem(obj, index, s) ==
    CASE obj.k = "array" ->
           LET elems == s.heap[obj.ref].elems IN
           IF ~IsIndex(index) THEN Raise(s, PyError("TypeError"))
           ELSE IF Slot(Len(elems), NumberOf(index)) = 0 THEN Raise(s, PyError("IndexError"))
           ELSE Ok(s, elems[Slot(Len(elems), NumberOf(index))])
      [] obj.k = "dict" ->
           LET entries == s.heap[obj.ref].entries IN
           IF ~Hashable(index) THEN Raise(s, PyError("TypeError"))
           ELSE IF KeyPos(entries, index) = {} THEN Raise(s, PyError("KeyError"))
           ELSE Ok(s, entries[CHOOSE i \in KeyPos(entries, index) : TRUE].val)
      [] obj.k = "str" ->
           LET chars == Chars(obj.s) IN
           IF ~IsIndex(index) THEN Raise(s, PyError("TypeError"))
           ELSE IF Slot(Len(chars), NumberOf(index)) = 0 THEN Raise(s, PyError("IndexError"))
           ELSE Ok(s, StrV(chars[Slot(Len(chars), NumberOf(index))]))
      [] obj.k \in {"null", "bool", "int", "float", "function", "native"} ->
           Raise(s, PyError("TypeError"))

\* obj[index] = value of the host: the heap after it, or the exception raised.
PySetItem(obj, index, value, s) ==
    CASE obj.k = "array" ->
           LET elems == s.heap[obj.ref].elems IN
           IF ~IsIndex(index) THEN Raise(s, PyError("TypeError"))
           ELSE IF Slot(Len(elems), NumberOf(index)) = 0 THEN Raise(s, PyError("IndexError"))
           ELSE Ok([s EXCEPT !.heap[obj.ref].elems[Slot(Len(elems), NumberOf(index))] = value],
                   Null)
      [] obj.k = "dict" ->
           IF ~Hashable(index) THEN Raise(s, PyError("TypeError"))
           ELSE Ok([s EXCEPT !.heap[obj.ref].entries = DictSet(@, index, value)], Null)
      [] obj.k \in {"null", "bool", "int", "float", "str", "function", "native"} ->
           Raise(s, PyError("TypeError"))

\* except Exception as exc: raise BrewRuntimeError(f"Index error: {exc}", span)
IndexError(r, expr) ==
    IF r.sig.t = "PyError"
    THEN Raise(r.st, BrewRuntimeError([text |-> "Index error", name |-> r.sig.exc], expr.span))
    ELSE r

\* Interpreter._get_index
_get_index(obj, index, expr, s) == IndexError(PyGetItem(obj, index, s), expr)

\* Interpreter._set_index
_set_index(obj, index, value, expr, s) == IndexError(PySetItem(obj, index, value, s), expr)

RECURSIVE evaluate(_, _), evaluate_list(_, _, _), execute(_, _), execute_list(_, _),
          execute_block(_, _, _), execute_while(_, _), _execute_try(_, _),
          try_except(_, _, _), try_finally(_, _, _),
          try_finally_unless_pending(_, _, _), try_finally_first_wins(_, _, _),
          execute_block_no_finally(_, _, _), FunctionValue_call_dynamic(_, _, _),
          try_except_in_place(_, _, _), try_except_any(_, _, _),
          _binary(_, _), _assign(_, _), _call(_, _, _, _), FunctionValue_call(_, _, _),
          evaluate_pairs(_, _, _), FunctionValue_call_unchecked(_, _, _),
          _binary_eager(_, _)

\* The list comprehension [self.evaluate(arg) for arg in expr.args]:
\* left to right, abandoned at the first exception.  val is the list.
evaluate_list(exprs, acc, s) ==
    IF exprs = <<>> THEN [st |-> s, sig |-> Normal, val |-> acc]
    ELSE LET r == evaluate(Head(exprs), s) IN
         IF r.sig.t /= "normal" THEN [st |-> r.st, sig |-> r.sig, val |-> acc]
         ELSE evaluate_list(Tail(exprs), Append(acc, r.val), r.st)

\* A && and a || that evaluate the right operand before they choose.
_binary_eager(expr, s) ==
    LET l == evaluate(expr.left, s) IN
    IF l.sig.t /= "normal" THEN l
    ELSE LET r == evaluate(expr.right, l.st) IN
         IF r.sig.t /= "normal" THEN r
         ELSE IF (expr.op = "&&") = is_truthy(l.val, l.st.heap) THEN r
         ELSE Ok(r.st, l.val)

\* The operators Interpreter._binary tests for.
BinaryOps == {"&&", "||", "+", "-", "*", "/", "%", "<", "<=", ">", ">=", "==", "!="}

\* Interpreter._binary
_binary(expr, s) ==
    IF expr.op \in {"&&", "||"}
    THEN LET l == evaluate(expr.left, s) IN
         IF l.sig.t /= "normal" THEN l
         ELSE IF expr.op = "&&"
              THEN (IF is_truthy(l.val, l.st.heap) THEN evaluate(expr.right, l.st) ELSE l)
              ELSE (IF is_truthy(l.val, l.st.heap) THEN l ELSE evaluate(expr.right, l.st))
    ELSE LET l == evaluate(expr.left, s) IN
         IF l.sig.t /= "normal" THEN l
         ELSE LET r == evaluate(expr.right, l.st) IN
              IF r.sig.t /= "normal" THEN r
              ELSE CASE expr.op = "+" -> PyAdd(l.val, r.val, r.st)
                     [] expr.op \in {"-", "*", "/", "%"} ->
                          LET a == _ensure_number(l.val, expr, r.st) IN
                          IF a.sig.t /= "normal" THEN a
                          ELSE LET b == _ensure_number(r.val, expr, r.st) IN
                               IF b.sig.t /= "normal" THEN b
                               ELSE (CASE expr.op \in {"-", "*"} ->
                                            Ok(r.st, PyArith(expr.op, a.val, b.val))
                                       [] expr.op = "/" -> PyTrueDiv(a.val, b.val, r.st)
                                       [] expr.op = "%" -> PyModulo(a.val, b.val, r.st))
                     [] expr.op \in {"<", "<=", ">", ">="} ->
                          PyCompare(expr.op, l.val, r.val, r.st)
                     [] expr.op = "==" -> Ok(r.st, BoolV(PyEq(l.val, r.val, r.st.heap)))
                     [] expr.op = "!=" -> Ok(r.st, BoolV(~PyEq(l.val, r.val, r.st.heap)))
                     [] expr.op \notin BinaryOps -> Raise(r.st, BrewRuntimeError(
                                     [text |-> "Unknown operator", name |-> expr.op],
                                     expr.span))

\* Interpreter._assign
_assign(expr, s) ==
    LET v == evaluate(expr.value, s) IN
    IF v.sig.t /= "normal" THEN v
    ELSE IF expr.target.type = "Identifier"
    THEN LET a == assign(v.st.frames, v.st.environment, expr.target.name, v.val) IN
         IF a.sig.t /= "normal" THEN Raise(v.st, a.sig)
         ELSE Ok([v.st EXCEPT !.frames = a.frames], v.val)
    ELSE IF expr.target.type = "MemberExpr"
    THEN LET o == evaluate(expr.target.obj, v.st) IN
         IF o.sig.t /= "normal" THEN o
         ELSE LET m == _set_member(o.val, expr.target.name, v.val, expr, o.st) IN
              IF m.sig.t /= "normal" THEN m ELSE Ok(m.st, v.val)
    ELSE IF expr.target.type = "IndexExpr"
    THEN LET o == evaluate(expr.target.obj, v.st) IN
         IF o.sig.t /= "normal" THEN o
         ELSE LET i == evaluate(expr.target.index, o.st) IN
              IF i.sig.t /= "normal" THEN i
              ELSE LET m == _set_index(o.val, i.val, v.val, expr, i.st) IN
                   IF m.sig.t /= "normal" THEN m ELSE Ok(m.st, v.val)
    ELSE Raise(v.st, BrewRuntimeError([text |-> "Invalid assignment target"], expr.span))

\* zip(self.params, args) followed by env.define of each pair
RECURSIVE define_params(_, _, _, _)
define_params(frames, env, params, args) ==
    IF params = <<>> \/ args = <<>> THEN frames
    ELSE define_params(define(frames, env, Head(params), Head(args)), env,
                       Tail(params), Tail(args))

\* A call whose frame is a child of the caller's current environment.
FunctionValue_call_dynamic(fn, args, s) ==
    IF Len(args) /= Len(fn.params)
    THEN Raise(s, BrewRuntimeError(
             [text |-> "Function expected args", name |-> fn.name,
              expected |-> Len(fn.params), got |-> Len(args)], fn.span))
    ELSE LET env == Len(s.frames) + 1
             f1 == Environment(s.frames, s.environment)
             f2 == define_params(f1, env, fn.params, args)
             r == execute_block(fn.body, env,
                                [s EXCEPT !.frames = f2, !.depth = @ + 1])
             e == [ev |-> "call", frame |-> env, closure |-> fn.closure,
                   before |-> s.environment, after |-> r.st.environment, sig |-> r.sig]
             s1 == Log([r.st EXCEPT !.depth = s.depth], e)
         IN  IF r.sig.t = "BrewReturn" THEN Ok(s1, r.sig.value)
             ELSE IF r.sig.t = "normal" THEN Ok(s1, Null)
             ELSE Raise(s1, r.sig)

\* A call that binds what zip pairs up whatever the number of arguments.
FunctionValue_call_unchecked(fn, args, s) ==
    LET env == Len(s.frames) + 1
        f1 == Environment(s.frames, fn.closure)
        f2 == define_params(f1, env, fn.params, args)
        r == execute_block(fn.body, env, [s EXCEPT !.frames = f2, !.depth = @ + 1])
        e == [ev |-> "call", frame |-> env, closure |-> fn.closure,
              before |-> s.environment, after |-> r.st.environment, sig |-> r.sig]
        s1 == Log([r.st EXCEPT !.depth = s.depth], e)
    IN  IF r.sig.t = "BrewReturn" THEN Ok(s1, r.sig.value)
        ELSE IF r.sig.t = "normal" THEN Ok(s1, Null)
        ELSE Raise(s1, r.sig)

\* FunctionValue.__call__(self, interpreter, args)
FunctionValue_call(fn, args, s) ==
    IF Len(args) /= Len(fn.params)
    THEN Raise(s, BrewRuntimeError(
             [text |-> "Function expected args", name |-> fn.name,
              expected |-> Len(fn.params), got |-> Len(args)], fn.span))
    ELSE LET env == Len(s.frames) + 1
             f1 == Environment(s.frames, fn.closure)
             f2 == define_params(f1, env, fn.params, args)
             r == execute_block(fn.body, env,
                                [s EXCEPT !.frames = f2, !.depth = @ + 1])
             e == [ev |-> "call", frame |-> env, closure |-> fn.closure,
                   before |-> s.environment, after |-> r.st.environment, sig |-> r.sig]
             s1 == Log([r.st EXCEPT !.depth = s.depth], e)
         IN  IF r.sig.t = "BrewReturn" THEN Ok(s1, r.sig.value)
             ELSE IF r.sig.t = "normal" THEN Ok(s1, Null)
             ELSE Raise(s1, r.sig)

\* Interpreter._call
_call(callee, args, expr, s) ==
    IF callee.k = "function" THEN FunctionValue_call(callee, args, s)
    ELSE IF callee.k = "native" THEN NativeFunction_call(callee, args, s)
    ELSE Raise(s, BrewRuntimeError([text |-> "Can only call functions"], expr.span))

\* The dict comprehension {key: self.evaluate(val) for key, val in expr.pairs}:
\* in the order written, abandoned at the first exception.  val is the entries.
evaluate_pairs(pairs, acc, s) ==
    IF pairs = <<>> THEN [st |-> s, sig |-> Normal, val |-> acc]
    ELSE LET r == evaluate(Head(pairs)[2], s) IN
         IF r.sig.t /= "normal" THEN [st |-> r.st, sig |-> r.sig, val |-> acc]
         ELSE evaluate_pairs(Tail(pairs), DictSet(acc, StrV(Head(pairs)[1]), r.val), r.st)

\* The expression classes Interpreter.evaluate tests for.
ExprTypes == {"Literal", "Identifier", "ArrayLiteral", "ObjectLiteral", "UnaryExpr",
              "BinaryExpr", "AssignExpr", "MemberExpr", "IndexExpr", "CallExpr",
              "FunctionExpr"}

\* Interpreter.evaluate
evaluate(expr, s) ==
    CASE expr.type = "Literal" -> Ok(s, expr.value)
      [] expr.type = "Identifier" ->
           LET g == get(s.frames, s.environment, expr.name) IN
           IF g.sig.t /= "normal" THEN Raise(s, g.sig) ELSE Ok(s, g.val)
      [] expr.type = "ArrayLiteral" ->
           LET a == evaluate_list(expr.items, <<>>, s) IN
           IF a.sig.t /= "normal" THEN Raise(a.st, a.sig)
           ELSE Ok([a.st EXCEPT !.heap = Append(@, NewList(a.val))],
                   ArrayV(Len(a.st.heap) + 1))
      [] expr.type = "ObjectLiteral" ->
           LET a == evaluate_pairs(expr.pairs, <<>>, s) IN
           IF a.sig.t /= "normal" THEN Raise(a.st, a.sig)
           ELSE Ok([a.st EXCEPT !.heap = Append(@, NewDict(a.val))],
                   DictV(Len(a.st.heap) + 1))
      [] expr.type = "UnaryExpr" ->
           LET r == evaluate(expr.right, s) IN
           IF r.sig.t /= "normal" THEN r
           ELSE (CASE expr.op = "-" ->
                       LET n == _ensure_number(r.val, expr, r.st) IN
                       IF n.sig.t /= "normal" THEN n
                       ELSE Ok(r.st, PyArith("-", IntV(0), n.val))
                  [] expr.op = "!" -> Ok(r.st, BoolV(~is_truthy(r.val, r.st.heap)))
                  [] OTHER ->
                       \* no test below matches a UnaryExpr
                       Raise(r.st, BrewRuntimeError(
                           [text |-> "Unknown expression type", name |-> expr.type],
                           expr.span)))
      [] expr.type = "BinaryExpr" -> _binary(expr, s)
      [] expr.type = "AssignExpr" -> _assign(expr, s)
      [] expr.type = "MemberExpr" ->
           LET o == evaluate(expr.obj, s) IN
           IF o.sig.t /= "normal" THEN o
           ELSE _get_member(o.val, expr.name, o.st)
      [] expr.type = "IndexExpr" ->
           LET o == evaluate(expr.obj, s) IN
           IF o.sig.t /= "normal" THEN o
           ELSE LET i == evaluate(expr.index, o.st) IN
                IF i.sig.t /= "normal" THEN i
                ELSE _get_index(o.val, i.val, expr, i.st)
      [] expr.type = "CallExpr" ->
           LET c == evaluate(expr.callee, s) IN
           IF c.sig.t /= "normal" THEN c
           ELSE LET a == evaluate_list(expr.args, <<>>, c.st) IN
                IF a.sig.t /= "normal" THEN Raise(a.st, a.sig)
                ELSE _call(c.val, a.val, expr, a.st)
      [] expr.type = "FunctionExpr" ->
           Ok(s, FunctionValue(expr.name, expr.params, expr.body, s.environment, expr.span))
      [] expr.type \notin ExprTypes -> Raise(s, BrewRuntimeError(
                      [text |-> "Unknown expression type", name |-> expr.type], expr.span))

\* The loop "for stmt in statements: self.execute(stmt)"
execute_list(statements, s) ==
    IF statements = <<>> THEN Ok(s, Null)
    ELSE LET r == execute(Head(statements), s) IN
         IF r.sig.t /= "normal" THEN r ELSE execute_list(Tail(statements), r.st)

\* A block that restores the environment only when it completes normally.
execute_block_no_finally(statements, env, s) ==
    LET previous == s.environment
        r == execute_list(statements, [s EXCEPT !.environment = env])
        s1 == IF r.sig.t = "normal" THEN [r.st EXCEPT !.environment = previous] ELSE r.st
        e == [ev |-> "block", env |-> env, before |-> previous,
              after |-> s1.environment, sig |-> r.sig]
    IN  [st |-> Log(s1, e), sig |-> r.sig, val |-> Null]

\* Interpreter.execute_block
execute_block(statements, env, s) ==
    LET previous == s.environment
        r == execute_list(statements, [s EXCEPT !.environment = env])
        s1 == [r.st EXCEPT !.environment = previous]
        e == [ev |-> "block", env |-> env, before |-> previous,
              after |-> s1.environment, sig |-> r.sig]
    IN  [st |-> Log(s1, e), sig |-> r.sig, val |-> Null]

\* The while loop of Interpreter.execute
execute_while(stmt, s) ==
    LET c == evaluate(stmt.condition, s) IN
    IF c.sig.t /= "normal" THEN c
    ELSE IF ~is_truthy(c.val, c.st.heap) THEN Ok(c.st, Null)
    ELSE LET b == execute(stmt.wbody, c.st) IN
         IF b.sig.t /= "normal" THEN b ELSE execute_while(stmt, b.st)

\* An except clause that binds the catch name in the current frame and runs
\* the catch block there.
try_except_in_place(stmt, id, b) ==
    LET s1 == Log(b.st, [ev |-> "body", id |-> id, sig |-> b.sig]) IN
    IF b.sig.t = "BrewThrow"
    THEN IF stmt.catch_block = None
         THEN [b EXCEPT !.st = s1]
         ELSE LET env == s1.environment
                  f2 == IF stmt.catch_name /= NoName
                        THEN define(s1.frames, env, stmt.catch_name, b.sig.value)
                        ELSE s1.frames
                  s2 == Log([s1 EXCEPT !.frames = f2],
                            [ev |-> "catch", id |-> id, value |-> b.sig.value,
                             frame |-> env, parent |-> f2[env].parent,
                             current |-> s1.environment, values |-> f2[env].values])
              IN  execute_block(stmt.catch_block.statements, env, s2)
    ELSE [b EXCEPT !.st = s1]

\* An except clause that handles every exception, not only BrewThrow.
try_except_any(stmt, id, b) ==
    LET s1 == Log(b.st, [ev |-> "body", id |-> id, sig |-> b.sig]) IN
    IF b.sig.t /= "normal"
    THEN IF stmt.catch_block = None
         THEN [b EXCEPT !.st = s1]
         ELSE LET env == Len(s1.frames) + 1
                  v == IF b.sig.t \in {"BrewThrow", "BrewReturn"} THEN b.sig.value ELSE Null
                  f1 == Environment(s1.frames, s1.environment)
                  f2 == IF stmt.catch_name /= NoName
                        THEN define(f1, env, stmt.catch_name, v)
                        ELSE f1
                  s2 == Log([s1 EXCEPT !.frames = f2],
                            [ev |-> "catch", id |-> id, value |-> v,
                             frame |-> env, parent |-> f2[env].parent,
                             current |-> s1.environment, values |-> f2[env].values])
              IN  execute_block(stmt.catch_block.statements, env, s2)
    ELSE [b EXCEPT !.st = s1]

\* Interpreter._execute_try, the except clause: b is the outcome of the
\* try block of the try statement entered as number id.
try_except(stmt, id, b) ==
    LET s1 == Log(b.st, [ev |-> "body", id |-> id, sig |-> b.sig]) IN
    IF b.sig.t = "BrewThrow"
    THEN IF stmt.catch_block = None
         THEN [b EXCEPT !.st = s1]
         ELSE LET env == Len(s1.frames) + 1
                  f1 == Environment(s1.frames, s1.environment)
                  f2 == IF stmt.catch_name /= NoName
                        THEN define(f1, env, stmt.catch_name, b.sig.value)
                        ELSE f1
                  s2 == Log([s1 EXCEPT !.frames = f2],
                            [ev |-> "catch", id |-> id, value |-> b.sig.value,
                             frame |-> env, parent |-> f2[env].parent,
                             current |-> s1.environment, values |-> f2[env].values])
              IN  execute_block(stmt.catch_block.statements, env, s2)
    ELSE [b EXCEPT !.st = s1]

\* A try statement whose finally block runs only when nothing is pending.
try_finally_unless_pending(stmt, id, c) ==
    IF stmt.finally_block /= None /\ c.sig.t = "normal"
    THEN LET f == execute(stmt.finally_block,
                          Log(c.st, [ev |-> "finally", id |-> id, pending |-> c.sig]))
         IN  [st |-> Log(f.st, [ev |-> "exit", id |-> id, fin |-> f.sig, out |-> f.sig]),
              sig |-> f.sig, val |-> Null]
    ELSE [st |-> Log(c.st, [ev |-> "exit", id |-> id, fin |-> Normal, out |-> c.sig]),
          sig |-> c.sig, val |-> Null]

\* A try statement whose pending exception survives a failing finally block.
try_finally_first_wins(stmt, id, c) ==
    IF stmt.finally_block /= None
    THEN LET f == execute(stmt.finally_block,
                          Log(c.st, [ev |-> "finally", id |-> id, pending |-> c.sig]))
             out == IF c.sig.t /= "normal" THEN c.sig ELSE f.sig
         IN  [st |-> Log(f.st, [ev |-> "exit", id |-> id, fin |-> f.sig, out |-> out]),
              sig |-> out, val |-> Null]
    ELSE [st |-> Log(c.st, [ev |-> "exit", id |-> id, fin |-> Normal, out |-> c.sig]),
          sig |-> c.sig, val |-> Null]

\* Interpreter._execute_try, the finally clause: c is the outcome of the
\* try block and the except clause.  An exception of the finally block
\* replaces the pending one; otherwise the pending one is re-raised.
try_finally(stmt, id, c) ==
    IF stmt.finally_block /= None
    THEN LET f == execute(stmt.finally_block,
                          Log(c.st, [ev |-> "finally", id |-> id, pending |-> c.sig]))
             out == IF f.sig.t /= "normal" THEN f.sig ELSE c.sig
         IN  [st |-> Log(f.st, [ev |-> "exit", id |-> id, fin |-> f.sig, out |-> out]),
              sig |-> out, val |-> Null]
    ELSE [st |-> Log(c.st, [ev |-> "exit", id |-> id, fin |-> Normal, out |-> c.sig]),
          sig |-> c.sig, val |-> Null]

\* Interpreter._execute_try
_execute_try(stmt, s) ==
    LET id == s.nact + 1
        s0 == Log([s EXCEPT !.nact = id],
                  [ev |-> "try", id |-> id, span |-> stmt.span,
                   hascatch |-> stmt.catch_block /= None,
                   hasfinally |-> stmt.finally_block /= None])
    IN  try_finally(stmt, id, try_except(stmt, id, execute(stmt.try_block, s0)))

\* Interpreter.execute
execute(stmt, s) ==
    CASE stmt.type = "ExpressionStmt" ->
           Bind(evaluate(stmt.expr, s), LAMBDA r : [r EXCEPT !.val = Null])
      [] stmt.type = "VarDecl" ->
           Then(IF stmt.initializer /= None THEN evaluate(stmt.initializer, s)
                ELSE Ok(s, Null), LAMBDA r :
           Ok([r.st EXCEPT !.frames =
                  define(r.st.frames, r.st.environment, stmt.name, r.val)], Null))
      [] stmt.type = "BlockStmt" ->
           execute_block(stmt.statements, Len(s.frames) + 1,
                         [s EXCEPT !.frames = Environment(s.frames, s.environment)])
      [] stmt.type = "IfStmt" ->
           Then(evaluate(stmt.condition, s), LAMBDA c :
           IF is_truthy(c.val, c.st.heap) THEN execute(stmt.then_branch, c.st)
           ELSE IF stmt.else_branch /= None THEN execute(stmt.else_branch, c.st)
           ELSE Ok(c.st, Null))
      [] stmt.type = "WhileStmt" -> execute_while(stmt, s)
      [] stmt.type = "ReturnStmt" ->
           Then(IF stmt.value /= None THEN evaluate(stmt.value, s) ELSE Ok(s, Null),
                LAMBDA r :
           Raise(Log(r.st, [ev |-> "return", depth |-> r.st.depth]), BrewReturn(r.val)))
      [] stmt.type = "TryStmt" -> _execute_try(stmt, s)
      [] stmt.type = "ThrowStmt" ->
           Then(evaluate(stmt.value, s), LAMBDA r :
           Raise(Log(r.st, [ev |-> "throw", value |-> r.val, span |-> stmt.span]),
                 BrewThrow(r.val, stmt.span)))
      [] OTHER -> Raise(s, BrewRuntimeError(
                      [text |-> "Unknown statement type", name |-> stmt.type], stmt.span))

(***************************************************************************)
(* Programs.  A try program is one top-level statement: a try statement    *)
(* whose blocks hold one statement each, possibly with one try statement   *)
(* nested in one of its blocks, at top level or as the body of a function  *)
(* that is called at once.                                                 *)
(***************************************************************************)
At(line) == SourceSpan(line, 1)

StmtOk == VarDecl("a", Literal(IntV(1), At(10)), At(10))
StmtThrow1 == ThrowStmt(Literal(IntV(1), At(11)), At(11))
StmtThrow2 == ThrowStmt(Literal(IntV(2), At(12)), At(12))
StmtRethrow == ThrowStmt(Identifier("e", At(13)), At(13))
StmtUndefined == ExpressionStmt(Identifier("u", At(14)), At(14))
StmtReturn == ReturnStmt(Literal(IntV(7), At(15)), At(15))
StmtTypeError ==
    ExpressionStmt(BinaryExpr(Literal(Null, At(16)), "+", Literal(IntV(1), At(16)), At(16)),
                   At(16))

Leaves == {StmtOk, StmtThrow1, StmtThrow2, StmtRethrow, StmtUndefined, StmtReturn,
           StmtTypeError}

Body(stmt) == BlockStmt(<<stmt>>, At(20))
OptBody(stmts) == {None} \cup {Body(l) : l \in stmts}

\* What the parser builds for  try {b} [catch e {c}] [finally {f}]
Try(b, c, f, line) == TryStmt(b, IF c = None THEN NoName ELSE "e", c, f, At(line))

Try1 == {Try(Body(b), c, f, 30) :
           b \in Leaves, c \in OptBody(Leaves), f \in OptBody(Leaves)}
        \ {Try(Body(b), None, None, 30) : b \in Leaves}

Inner == {Try(Body(b), c, f, 30) :
            b \in {StmtOk, StmtThrow1, StmtUndefined, StmtReturn},
            c \in OptBody({StmtOk, StmtRethrow, StmtUndefined}),
            f \in OptBody({StmtOk, StmtThrow2, StmtReturn})}
         \ {Try(Body(b), None, None, 30) : b \in Leaves}

Outer == {StmtOk, StmtThrow2, StmtRethrow}

Try2 == ({Try(Body(t), c, f, 40) : t \in Inner, c \in OptBody(Outer), f \in OptBody(Outer)}
         \ {Try(Body(t), None, None, 40) : t \in Inner})
        \cup {Try(Body(StmtThrow1), Body(t), f, 40) : t \in Inner, f \in OptBody({StmtOk})}
        \cup {Try(Body(b), None, Body(t), 40) : b \in {StmtOk, StmtUndefined}, t \in Inner}

True == Literal(BoolV(TRUE), At(60))

\* A statement alone, in a block, under an if and under a while.
Nested == Leaves \cup {Body(l) : l \in Leaves}
          \cup {IfStmt(True, Body(l), None, At(60)) : l \in Leaves}
          \cup {IfStmt(Literal(Null, At(60)), Body(StmtOk), Body(l), At(60)) : l \in Leaves}
          \cup {WhileStmt(True, Body(l), At(60)) : l \in Leaves \ {StmtOk}}

\* (function () { stmt })()
CallNow(stmt) ==
    ExpressionStmt(CallExpr(FunctionExpr(NoName, <<>>, <<stmt>>, At(50)), <<>>, At(50)),
                   At(50))

TryMenu == Try1 \cup Try2 \cup Nested \cup {CallNow(t) : t \in Try1 \cup Try2 \cup Nested}

(***************************************************************************)
(* Closure programs: sequences of the statements                           *)
(*   function makeCounter() { obj n = 0;                                   *)
(*                            return function() { n = n + 1; return n; }; } *)
(*   function makeCounter() { obj f = null;                                *)
(*                            { obj n = 0; f = function() { ... }; }       *)
(*                            return f; }                                  *)
(*   obj c1 = makeCounter();   obj c2 = makeCounter();                     *)
(*   obj r1 = c1();            obj r2 = c2();                              *)
(***************************************************************************)
Id(name) == Identifier(name, At(70))
Num(n) == Literal(IntV(n), At(70))
Call0(callee) == CallExpr(callee, <<>>, At(70))
Set(name, expr) == ExpressionStmt(AssignExpr(Id(name), expr, At(70)), At(70))

Counter ==
    FunctionExpr(NoName, <<>>,
                 <<Set("n", BinaryExpr(Id("n"), "+", Num(1), At(71))),
                   ReturnStmt(Id("n"), At(71))>>, At(71))

DeclMaker ==
    VarDecl("makeCounter",
            FunctionExpr("makeCounter", <<>>,
                         <<VarDecl("n", Num(0), At(72)), ReturnStmt(Counter, At(72))>>,
                         At(72)), At(72))

DeclBlockMaker ==
    VarDecl("makeCounter",
            FunctionExpr("makeCounter", <<>>,
                         <<VarDecl("f", Literal(Null, At(73)), At(73)),
                           BlockStmt(<<VarDecl("n", Num(0), At(73)), Set("f", Counter)>>,
                                     At(73)),
                           ReturnStmt(Id("f"), At(73))>>,
                         At(73)), At(73))

Make(c) == VarDecl(c, Call0(Id("makeCounter")), At(74))
CallCounter(r, c) == VarDecl(r, Call0(Id(c)), At(75))

ClosureMenu == {DeclMaker, DeclBlockMaker, Make("c1"), Make("c2"),
                CallCounter("r1", "c1"), CallCounter("r2", "c2")}

(***************************************************************************)
(* Scoping programs: sequences of the statements                           *)
(*   function f() { return x; }      obj x = 5;      obj r = 0;            *)
(*   { obj x = 1; r = f(); }                                               *)
(*   r = (function() { obj x = 2; return f(); })();                        *)
(***************************************************************************)
DeclF == VarDecl("f", FunctionExpr("f", <<>>, <<ReturnStmt(Id("x"), At(80))>>, At(80)),
                 At(80))
DeclX == VarDecl("x", Num(5), At(81))
DeclR == VarDecl("r", Num(0), At(82))
CallFromBlock ==
    BlockStmt(<<VarDecl("x", Num(1), At(83)), Set("r", Call0(Id("f")))>>, At(83))
CallFromFunction ==
    Set("r", Call0(FunctionExpr(NoName, <<>>,
                                <<VarDecl("x", Num(2), At(84)),
                                  ReturnStmt(Call0(Id("f")), At(84))>>, At(84))))

LexicalMenu == {DeclF, DeclX, DeclR, CallFromBlock, CallFromFunction}

Menu == CASE mode = "try" -> TryMenu
          [] mode = "closure" -> ClosureMenu
          [] mode = "lexical" -> LexicalMenu
          [] OTHER -> {}
Limit == IF mode = "try" THEN 1 ELSE MaxStmts

(***************************************************************************)
(* The state machine                                                       *)
(***************************************************************************)
\* Interpreter.__init__
NewInterpreter ==
    [environment |-> 1,
     frames |-> <<[values |-> default_globals, parent |-> NoEnv]>>,
     heap |-> <<>>, nlambda |-> 0,
     trace |-> <<>>, nact |-> 0, depth |-> 0]

Running == [t |-> "running"]
Returned == [t |-> "returned"]

\* Interpreter.interpret, the except clauses: what leaves interpret when
\* the statement loop is left by the exception sig.
interpret_raises(sig) ==
    CASE sig.t = "BrewRuntimeError" -> sig
      [] sig.t = "BrewThrow" ->
           BrewRuntimeError([text |-> "Uncaught exception", value |-> sig.value], sig.span)
      [] OTHER -> sig

\* main.run: the exit code returned, or the exception that leaves run.
run(outcome) ==
    CASE outcome.t = "running" -> [t |-> "pending"]
      [] outcome.t = "returned" -> [t |-> "return", code |-> 0]
      [] outcome.t \in {"LexerError", "ParseError", "BrewRuntimeError"} ->
           [t |-> "return", code |-> 1]
      [] outcome.t = "PyError" -> [t |-> "raise", exc |-> outcome.exc]
      [] OTHER -> [t |-> "raise", exc |-> outcome.t]

NoLast == [op |-> "none"]

InitAny ==
    /\ program = <<>>
    /\ st = NewInterpreter
    /\ result = Running
    /\ exitcode = run(Running)
    /\ last = NoLast

Init == mode = "try" /\ InitAny

\* One iteration of the loop of interpret; the exception of a failing
\* statement ends interpret and run.
Step(stmt) ==
    /\ result = Running
    /\ Len(program) < Limit
    /\ LET r == execute(stmt, st) IN
       /\ st' = r.st
       /\ result' = IF r.sig.t = "normal" THEN Running ELSE interpret_raises(r.sig)
       /\ exitcode' = run(result')
    /\ program' = Append(program, stmt)
    /\ UNCHANGED <<mode, last>>

\* The loop of interpret runs out of statements: interpret and run return.
Finish ==
    /\ result = Running
    /\ result' = Returned
    /\ exitcode' = run(Returned)
    /\ UNCHANGED <<mode, program, st, last>>

Next == (\E stmt \in Menu : Step(stmt)) \/ Finish

\* Programs of one try statement.
Spec == Init /\ [][Next]_vars

\* Programs of several statements.
InitProg == mode \in {"closure", "lexical"} /\ InitAny
ProgSpec == InitProg /\ [][Next]_vars

(***************************************************************************)
(* The scoping scenario: the statements of nested blocks, one at a time.   *)
(* Entering a block is lines 42 and 66-68 of interpreter.py, leaving it    *)
(* is line 72; the statements are  obj n = v;  n = v;  and  n;  .          *)
(***************************************************************************)
Names == {"x", "y"}
Values == {IntV(1), IntV(2)}

InitScope == mode = "scope" /\ InitAny

EnterBlock ==
    /\ result = Running
    /\ Len(st.frames) <= MaxEnvs
    /\ st' = [st EXCEPT !.frames = Environment(st.frames, st.environment),
                        !.environment = Len(st.frames) + 1]
    /\ last' = [op |-> "enter"]
    /\ UNCHANGED <<mode, program, result, exitcode>>

LeaveBlock ==
    /\ result = Running
    /\ st.environment /= 1
    /\ st' = [st EXCEPT !.environment = st.frames[st.environment].parent]
    /\ last' = [op |-> "leave"]
    /\ UNCHANGED <<mode, program, result, exitcode>>

\* One statement of the innermost block; its exception ends interpret.
Statement(op, name, value, r) ==
    /\ result = Running
    /\ st' = r.st
    /\ last' = [op |-> op, name |-> name, value |-> value, sig |-> r.sig, val |-> r.val]
    /\ result' = IF r.sig.t = "normal" THEN Running ELSE interpret_raises(r.sig)
    /\ exitcode' = run(result')
    /\ UNCHANGED <<mode, program>>

Declare(name, value) ==
    Statement("define", name, value,
              execute(VarDecl(name, Literal(value, At(90)), At(90)), st))

AssignTo(name, value) ==
    Statement("assign", name, value,
              evaluate(AssignExpr(Identifier(name, At(91)), Literal(value, At(91)), At(91)),
                       st))

Lookup(name) ==
    Statement("get", name, Null, evaluate(Identifier(name, At(92)), st))

ScopeNext ==
    \/ EnterBlock
    \/ LeaveBlock
    \/ \E n \in Names, v \in Values : Declare(n, v)
    \/ \E n \in Names, v \in Values : AssignTo(n, v)
    \/ \E n \in Names : Lookup(n)

ScopeSpec == InitScope /\ [][ScopeNext]_vars

(***************************************************************************)
(* The operator scenario: a program that declares containers and a         *)
(* function, followed by one expression or statement under observation.    *)
(***************************************************************************)
Lit(value) == Literal(value, At(80))
Neg(n) == UnaryExpr("-", Lit(IntV(n)), At(80))
Incr == AssignExpr(Id("n"), BinaryExpr(Id("n"), "+", Num(1), At(80)), At(80))

\*  obj a = [1, 2]; obj b = a; obj c = [1, 2]; obj e = [];
\*  obj o = {}; obj p = {k: 1}; obj q = {k: 1}; obj n = 0;
\*  obj f = function(x) { n = n + 1; return x; };
Prelude ==
    <<VarDecl("a", ArrayLiteral(<<Num(1), Num(2)>>, At(1)), At(1)),
      VarDecl("b", Id("a"), At(2)),
      VarDecl("c", ArrayLiteral(<<Num(1), Num(2)>>, At(3)), At(3)),
      VarDecl("e", ArrayLiteral(<<>>, At(4)), At(4)),
      VarDecl("o", ObjectLiteral(<<>>, At(5)), At(5)),
      VarDecl("p", ObjectLiteral(<<<<"k", Num(1)>>>>, At(6)), At(6)),
      VarDecl("q", ObjectLiteral(<<<<"k", Num(1)>>>>, At(7)), At(7)),
      VarDecl("n", Num(0), At(8)),
      VarDecl("f", FunctionExpr(NoName, <<"x">>,
                                <<ExpressionStmt(Incr, At(9)), ReturnStmt(Id("x"), At(9))>>,
                                At(9)), At(9))>>

\* Operands of every runtime kind.
Primitives ==
    {Lit(Null), Lit(BoolV(TRUE)), Lit(BoolV(FALSE)),
     Lit(IntV(0)), Lit(IntV(1)), Lit(IntV(2)), Lit(IntV(7)), Neg(7),
     Lit(FloatV(0, 1)), Lit(FloatV(1, 2)), Lit(FloatV(2, 1)),
     Lit(StrV("")), Lit(StrV("a")), Lit(StrV("b"))}
Containers == {Id("a"), Id("b"), Id("c"), Id("e"), Id("o"), Id("p"), Id("q")}
Callables == {Id("f"), MemberExpr(Id("a"), "push", At(80)), Id("console")}
Operands == Primitives \cup Containers \cup Callables

\* Right operands whose evaluation shows: n = n + 1 and f(5).
Effects == {Incr, CallExpr(Id("f"), <<Num(5)>>, At(80))}

Indexes ==
    {Neg(3), Neg(2), Neg(1), Lit(IntV(0)), Lit(IntV(1)), Lit(IntV(2)), Lit(IntV(3)),
     Lit(BoolV(TRUE)), Lit(FloatV(1, 1)), Lit(StrV("k")), Lit(Null), Id("a")}
Indexed == {Id("a"), Id("e"), Id("p"), Lit(StrV("ab")), Lit(IntV(1)), Lit(Null)}

Callees ==
    {Id("f"), FunctionExpr(NoName, <<>>, <<ExpressionStmt(Incr, At(80))>>, At(80)),
     MemberExpr(Id("a"), "push", At(80)), MemberExpr(Id("a"), "pop", At(80)),
     MemberExpr(Id("e"), "pop", At(80)), MemberExpr(Id("console"), "log", At(80)),
     Id("a")}
Arguments == {<<>>, <<Num(5)>>, <<Num(5), Num(6)>>}

Expressions ==
    {BinaryExpr(x, op, y, At(81)) : x \in Operands, y \in Operands,
                                    op \in BinaryOps \ {"&&", "||"}}
    \cup {BinaryExpr(x, op, y, At(82)) : x \in Operands, y \in Effects, op \in {"&&", "||"}}
    \cup {UnaryExpr(op, x, At(83)) : x \in Operands, op \in {"-", "!"}}
    \cup {IndexExpr(x, i, At(84)) : x \in Indexed, i \in Indexes}
    \cup {AssignExpr(IndexExpr(x, i, At(85)), Num(9), At(85)) : x \in Indexed, i \in Indexes}
    \cup {CallExpr(x, args, At(86)) : x \in Callees, args \in Arguments}

\*  if (x) { n = 1; } else { n = 2; }
Branch(x) ==
    IfStmt(x, BlockStmt(<<Set("n", Num(1))>>, At(87)),
           BlockStmt(<<Set("n", Num(2))>>, At(87)), At(87))
\*  { obj w = x; while (w) { n = n + 1; w = null; } }
Loop(x) ==
    BlockStmt(<<VarDecl("w", x, At(88)),
                WhileStmt(Id("w"),
                          BlockStmt(<<ExpressionStmt(Incr, At(88)), Set("w", Lit(Null))>>,
                                    At(88)),
                          At(88))>>, At(88))
Statements == {Branch(x) : x \in Operands} \cup {Loop(x) : x \in Operands}

InitOps == mode = "ops" /\ InitAny

\* One iteration of the loop of interpret over the declarations.
Prepare ==
    /\ result = Running
    /\ Len(program) < Len(Prelude)
    /\ LET stmt == Prelude[Len(program) + 1]
           r == execute(stmt, st)
       IN  /\ st' = r.st
           /\ result' = IF r.sig.t = "normal" THEN Running ELSE interpret_raises(r.sig)
           /\ exitcode' = run(result')
           /\ program' = Append(program, stmt)
    /\ UNCHANGED <<mode, last>>

\* The declarations have all been executed, none has failed.
Declared == result = Running /\ Len(program) = Len(Prelude)

\* The iteration of the loop of interpret over the statement observed; r is
\* its outcome with, for an expression statement, the value of the expression.
Observe(stmt, r) ==
    /\ Declared
    /\ st' = r.st
    /\ last' = [op |-> "probe", node |-> stmt, before |-> st, sig |-> r.sig, val |-> r.val]
    /\ result' = IF r.sig.t = "normal" THEN Running ELSE interpret_raises(r.sig)
    /\ exitcode' = run(result')
    /\ program' = Append(program, stmt)
    /\ UNCHANGED mode

\* execute(ExpressionStmt(expr)) is self.evaluate(stmt.expr)
ProbeExpr(expr) == Observe(ExpressionStmt(expr, expr.span), evaluate(expr, st))
ProbeStmt(stmt) == Observe(stmt, execute(stmt, st))

OpsNext ==
    \/ Prepare
    \/ Declared /\ \E expr \in Expressions : ProbeExpr(expr)
    \/ Declared /\ \E stmt \in Statements : ProbeStmt(stmt)
    \/ Finish

OpsSpec == InitOps /\ [][OpsNext]_vars

\* Reading the observation: the expression, the state before and after it.
Probed == last.op = "probe" /\ last.node.type = "ExpressionStmt"
E == last.node.expr
Before == last.before
ProbedBinary(ops) == Probed /\ E.type = "BinaryExpr" /\ E.op \in ops
\* The operands of a binary expression, evaluated as _binary evaluates them.
Left == evaluate(E.left, Before)
Right == evaluate(E.right, Left.st)
EvaluatedBoth == Left.sig.t = "normal" /\ Right.sig.t = "normal"

(***************************************************************************)
(* Reading the history                                                     *)
(***************************************************************************)
T == st.trace

\* Positions of the events of one kind of the try statement entered as id.
Idx(ev, id) == {i \in DOMAIN T : T[i].ev = ev /\ T[i].id = id}
Pos(ev, id) == CHOOSE i \in Idx(ev, id) : TRUE
Has(ev, id) == Idx(ev, id) /= {}

TryIds == {T[i].id : i \in {j \in DOMAIN T : T[j].ev = "try"}}
WithFinally == {id \in TryIds : T[Pos("try", id)].hasfinally}

\* b encloses a: b was entered before a and is left after a.
Encloses(b, a) == Pos("try", b) < Pos("try", a) /\ Pos("exit", a) < Pos("exit", b)

\* How an exception that leaves a statement at position i of the history
\* shows: the enclosing block ends with it or, at top level, interpret does.
Propagates(i, sig) ==
    IF i < Len(T) THEN T[i + 1].ev = "block" /\ T[i + 1].sig = sig
    ELSE result = interpret_raises(sig)

(***************************************************************************)
(* C1: whichever way control leaves the try block of a try statement with  *)
(* a finally block, the finally block is executed exactly once: after the  *)
(* try block and the catch block, before the try statement is left and     *)
(* before any enclosing try statement reacts to the exit.                  *)
(***************************************************************************)
FinallyExactlyOnce ==
    \A id \in WithFinally :
        /\ Cardinality(Idx("finally", id)) = 1
        /\ Cardinality(Idx("body", id)) = 1
        /\ Cardinality(Idx("exit", id)) = 1
        /\ Pos("try", id) < Pos("body", id)
        /\ Pos("body", id) < Pos("finally", id)
        /\ Pos("finally", id) < Pos("exit", id)
        /\ Has("catch", id) => Pos("catch", id) < Pos("finally", id)
        /\ T[Pos("exit", id)].out.t /= "normal" =>
               Propagates(Pos("exit", id), T[Pos("exit", id)].out)
        /\ \A b \in TryIds : Encloses(b, id) =>
               \A ev \in {"body", "catch", "finally", "exit"} : \A j \in Idx(ev, b) :
                   j < Pos("try", id) \/ Pos("exit", id) < j

\* The ways control leaves the try block of the try statement entered as id.
ExitWay(id) ==
    LET b == T[Pos("body", id)].sig
        p == T[Pos("finally", id)].pending
    IN  CASE b.t = "normal" -> "normal"
          [] b.t = "BrewReturn" -> "return"
          [] b.t \in {"BrewRuntimeError", "PyError"} -> "error"
          [] b.t = "BrewThrow" /\ ~Has("catch", id) -> "uncaught"
          [] b.t = "BrewThrow" /\ Has("catch", id) /\ p.t = "BrewThrow" -> "catch throws"
          [] OTHER -> "caught"

\* A throw raised inside the catch block of an inner try statement: its
\* finally block has run once when the enclosing catch block is entered.
FinallyWitness ==
    \E id \in WithFinally : \E b \in TryIds :
        /\ ExitWay(id) = "catch throws"
        /\ Encloses(b, id)
        /\ Has("catch", b)
        /\ Pos("finally", id) < Pos("catch", b)
        /\ FinallyExactlyOnce

(***************************************************************************)
(* C2: when a block or a user-function call ends, normally or by a return, *)
(* a throw or an error, the current environment is the frame that was      *)
(* current before it started; between top-level statements it is the       *)
(* global frame.                                                           *)
(***************************************************************************)
EnvironmentRestored ==
    /\ \A i \in DOMAIN T : T[i].ev \in {"block", "call"} => T[i].after = T[i].before
    /\ st.environment = 1

\* A call left by a user throw and a block left by a runtime error.
EnvironmentWitness ==
    /\ \E i \in DOMAIN T : /\ T[i].ev = "call" /\ T[i].sig.t = "BrewThrow"
                           /\ T[i].frame /= T[i].before /\ T[i].after = T[i].before
    /\ \E i \in DOMAIN T : /\ T[i].ev = "block" /\ T[i].sig.t = "BrewRuntimeError"
                           /\ T[i].env /= T[i].before /\ T[i].after = T[i].before

(***************************************************************************)
(* C8: a finally block that throws, returns or fails replaces the pending  *)
(* return, throw or error, and the signal of the finally block is what     *)
(* leaves the try statement; a finally block that completes normally       *)
(* leaves the pending signal unchanged.                                    *)
(***************************************************************************)
FinallyLastWriteWins ==
    \A id \in WithFinally :
        LET p == T[Pos("finally", id)].pending
            e == T[Pos("exit", id)]
            leaving == IF e.fin.t /= "normal" THEN e.fin ELSE p
        IN  /\ e.out = leaving
            /\ leaving.t /= "normal" => Propagates(Pos("exit", id), leaving)

\* A finally block throws while a return is pending, inside a function.
LastWriteWitness ==
    \E id \in WithFinally :
        /\ T[Pos("finally", id)].pending.t = "BrewReturn"
        /\ T[Pos("exit", id)].fin.t = "BrewThrow"
        /\ T[Pos("exit", id)].out.t = "BrewThrow"
        /\ result.t = "BrewRuntimeError"
        /\ result.message.text = "Uncaught exception"

(***************************************************************************)
(* Reading the frames                                                      *)
(***************************************************************************)
Globals == st.frames[1].values

RECURSIVE Chain(_, _)
\* The frame chain of env, nearest frame first.
Chain(frames, env) ==
    IF env = NoEnv THEN <<>> ELSE <<env>> \o Chain(frames, frames[env].parent)

\* The positions of the chain whose frame binds name.
Binders(frames, env, name) ==
    {i \in DOMAIN Chain(frames, env) : name \in DOMAIN frames[Chain(frames, env)[i]].values}

\* The nearest frame of the chain that binds name.
NearestBinder(frames, env, name) ==
    LET b == Binders(frames, env, name)
    IN  Chain(frames, env)[CHOOSE i \in b : \A j \in b : i <= j]

UndefinedVariable(name) ==
    BrewRuntimeError([text |-> "Undefined variable", name |-> name], None)

LastStmt == program[Len(program)]

(***************************************************************************)
(* C3: the frame of a user-function invocation is a child of the           *)
(* environment captured when the function value was created, not of the    *)
(* caller's environment: in f, declared at top level as                    *)
(* function f() { return x; }, x is the global x when there is one and an  *)
(* undefined variable otherwise, whatever x the caller's chain binds.      *)
(***************************************************************************)
CallFrameIsChildOfClosure ==
    /\ \A i \in DOMAIN T : T[i].ev = "call" => st.frames[T[i].frame].parent = T[i].closure
    /\ ( /\ mode = "lexical" /\ program /= <<>>
         /\ LastStmt \in {CallFromBlock, CallFromFunction}
         /\ {"f", "r"} \subseteq DOMAIN Globals )
       => IF "x" \in DOMAIN Globals
          THEN result \in {Running, Returned} /\ Globals["r"] = Globals["x"]
          ELSE result = UndefinedVariable("x")

\* f is called from a frame that binds x while its closure chain does not.
CallFrameWitness ==
    /\ mode = "lexical"
    /\ result = UndefinedVariable("x")
    /\ \E i \in DOMAIN T :
          /\ T[i].ev = "call"
          /\ T[i].closure = 1
          /\ Binders(st.frames, T[i].before, "x") /= {}
          /\ Binders(st.frames, T[i].frame, "x") = {}
          /\ st.frames[T[i].frame].parent /= T[i].before

(***************************************************************************)
(* C5: the k-th call of a counter returned by makeCounter yields k, and    *)
(* the counters of two calls of makeCounter are independent: r1 (r2) is    *)
(* the number of calls of c1 (c2) since c1 (c2) was made.                  *)
(***************************************************************************)
\* The position of the last occurrence of stmt among the first n statements.
LastOf(stmt, n) ==
    LET occ == {i \in 1..n : program[i] = stmt}
    IN  IF occ = {} THEN 0 ELSE CHOOSE i \in occ : \A j \in occ : j <= i

CallsSinceMade(r, c) ==
    LET i == LastOf(CallCounter(r, c), Len(program))
        m == LastOf(Make(c), i)
    IN  Cardinality({j \in (m + 1)..i : program[j] = CallCounter(r, c)})

CounterCounts ==
    mode = "closure" =>
        /\ "r1" \in DOMAIN Globals => Globals["r1"] = IntV(CallsSinceMade("r1", "c1"))
        /\ "r2" \in DOMAIN Globals => Globals["r2"] = IntV(CallsSinceMade("r2", "c2"))

\* Two counters; the first has been called twice, the second once.
CounterWitness ==
    /\ mode = "closure"
    /\ {"r1", "r2"} \subseteq DOMAIN Globals
    /\ Globals["r1"] = IntV(2)
    /\ Globals["r2"] = IntV(1)
    /\ CallsSinceMade("r1", "c1") = 2

(***************************************************************************)
(* C4: get(N) returns the value bound in the nearest frame of the chain    *)
(* that binds N, whatever the frames further out bind; when no frame of    *)
(* the chain binds N it fails with a runtime error.                        *)
(***************************************************************************)
GetReturnsNearest ==
    last.op = "get" =>
        IF Binders(st.frames, st.environment, last.name) /= {}
        THEN /\ last.sig = Normal
             /\ last.val =
                  st.frames[NearestBinder(st.frames, st.environment, last.name)]
                      .values[last.name]
        ELSE /\ last.sig = UndefinedVariable(last.name)
             /\ result = last.sig

\* The name is bound in two frames of the chain, to different values, and
\* not in the current frame.
GetWitness ==
    /\ last.op = "get"
    /\ last.sig = Normal
    /\ Cardinality(Binders(st.frames, st.environment, last.name)) = 2
    /\ last.name \notin DOMAIN st.frames[st.environment].values
    /\ st.frames[1].values[last.name] /= last.val

(***************************************************************************)
(* C10: an assignment to an identifier writes the value into the nearest   *)
(* frame of the chain that binds the name and changes nothing else; when   *)
(* no frame binds the name it fails with a runtime error and changes no    *)
(* frame.                                                                  *)
(***************************************************************************)
AssignStep ==
    last'.op = "assign" =>
        IF Binders(st.frames, st.environment, last'.name) /= {}
        THEN /\ last'.sig = Normal
             /\ last'.val = last'.value
             /\ st'.frames =
                  [st.frames EXCEPT
                     ![NearestBinder(st.frames, st.environment, last'.name)]
                         .values[last'.name] = last'.value]
             /\ st'.environment = st.environment
        ELSE /\ last'.sig = UndefinedVariable(last'.name)
             /\ st' = st
             /\ result' = last'.sig

AssignWritesNearest == [][AssignStep]_vars

\* The assignment went to a frame further out than the current one while
\* the global frame keeps another value for the name.
AssignWitness ==
    /\ last.op = "assign"
    /\ last.sig = Normal
    /\ Cardinality(Binders(st.frames, st.environment, last.name)) = 2
    /\ last.name \notin DOMAIN st.frames[st.environment].values
    /\ st.frames[1].values[last.name] /= last.value

\* An assignment to a name that no frame binds has failed.
AssignUnboundWitness ==
    /\ last.op = "assign"
    /\ last.sig = UndefinedVariable(last.name)
    /\ Len(st.frames) > 1
    /\ \A e \in DOMAIN st.frames : last.name \notin DOMAIN st.frames[e].values

(***************************************************************************)
(* Unwinding.  At position i of the history the try statements in flight   *)
(* are those entered and not yet left; each is in its try block, in its    *)
(* catch block or in its finally block.                                    *)
(***************************************************************************)
InFlight(i) == {id \in TryIds : Pos("try", id) < i /\ i <= Pos("exit", id)}

Phase(id, i) ==
    IF i <= Pos("body", id) THEN "try"
    ELSE IF Has("finally", id) /\ Pos("finally", id) < i THEN "finally"
    ELSE "catch"

\* The try statements whose catch block is waiting for a throw raised at i.
Handlers(i) ==
    {id \in InFlight(i) : Phase(id, i) = "try" /\ T[Pos("try", id)].hascatch}

\* The nearest of them (0 when there is none).
Handler(i) ==
    IF Handlers(i) = {} THEN 0
    ELSE CHOOSE h \in Handlers(i) : \A g \in Handlers(i) : g <= h

\* A finally block that runs while the signal raised at i unwinds towards
\* the try statement h (towards interpret when h = 0) ends with a signal
\* of its own.
Superseded(i, h) ==
    \E id \in InFlight(i) :
        /\ id > h
        /\ Phase(id, i) /= "finally"
        /\ T[Pos("exit", id)].fin.t /= "normal"

\* The throw raised at position i is handled by the catch block of h, in a
\* fresh child frame that binds the catch name to the thrown value.
HandledBy(i, h) ==
    /\ T[Pos("body", h)].sig = BrewThrow(T[i].value, T[i].span)
    /\ Has("catch", h)
    /\ LET c == T[Pos("catch", h)] IN
       /\ c.value = T[i].value
       /\ c.frame \notin {T[j].frame : j \in {k \in 1..(Pos("catch", h) - 1) :
                                                 T[k].ev \in {"catch", "call"}}}
       /\ c.frame \notin {T[j].env : j \in {k \in 1..(Pos("catch", h) - 1) :
                                               T[k].ev = "block"}}
       /\ c.parent = c.current
       /\ c.values = [n \in {"e"} |-> T[i].value]
       /\ \E j \in DOMAIN T : /\ j > Pos("catch", h) /\ T[j].ev = "block"
                              /\ T[j].env = c.frame /\ T[j].before = c.current

Uncaught(i) ==
    result = BrewRuntimeError([text |-> "Uncaught exception", value |-> T[i].value],
                              T[i].span)

(***************************************************************************)
(* C6 as stated: every user throw is handled by the catch block of the     *)
(* nearest dynamically enclosing try statement that has one, with the      *)
(* thrown value bound to the catch name in a fresh child frame; without    *)
(* such a try statement interpret fails with the uncaught-exception        *)
(* RuntimeError that carries the span of the throw.  (Stated for the runs  *)
(* in which the host raises no exception of its own.)                      *)
(***************************************************************************)
NoHostError ==
    \A j \in DOMAIN T : T[j].ev \in {"block", "body"} => T[j].sig.t /= "PyError"

ThrowReachesNearestCatch ==
    NoHostError =>
        \A i \in DOMAIN T : T[i].ev = "throw" =>
            IF Handlers(i) /= {} THEN HandledBy(i, Handler(i)) ELSE Uncaught(i)

(***************************************************************************)
(* C6 amended: the same, for every throw that no finally block replaces    *)
(* on its way: a finally block that runs while the throw unwinds and       *)
(* itself throws, returns or fails substitutes its own signal.             *)
(***************************************************************************)
ThrowReachesNearestCatchUnlessReplaced ==
    \A i \in DOMAIN T : (T[i].ev = "throw" /\ ~Superseded(i, Handler(i))) =>
        IF Handlers(i) /= {} THEN HandledBy(i, Handler(i)) ELSE Uncaught(i)

\* A throw passes an inner try statement that has only a finally block,
\* which completes normally, and is handled by the catch block of the
\* enclosing try statement.
ThrowWitness ==
    \E i \in DOMAIN T :
        /\ T[i].ev = "throw"
        /\ Handlers(i) /= {}
        /\ \E id \in InFlight(i) : id > Handler(i) /\ Has("finally", id)
        /\ ~Superseded(i, Handler(i))
        /\ HandledBy(i, Handler(i))

\* A throw with try statements but no catch block around it ends interpret.
UncaughtWitness ==
    \E i \in DOMAIN T :
        /\ T[i].ev = "throw"
        /\ Handlers(i) = {}
        /\ InFlight(i) /= {}
        /\ ~Superseded(i, 0)
        /\ Uncaught(i)
        /\ exitcode = [t |-> "return", code |-> 1]

(***************************************************************************)
(* C7 as stated: a catch block is entered only for a user throw; after a   *)
(* runtime error or a return has left a try block, neither the catch block *)
(* of that try statement nor the one of an enclosing try statement is      *)
(* executed; and a runtime error ends interpret with a RuntimeError.       *)
(* (Stated for the runs in which the host raises no exception of its own.) *)
(***************************************************************************)
ErrorPositions(kinds) ==
    {j \in DOMAIN T : T[j].ev \in {"block", "body"} /\ T[j].sig.t \in kinds}

CatchOnlyForThrow ==
    \A id \in TryIds : Has("catch", id) => T[Pos("body", id)].sig.t = "BrewThrow"

ErrorsAreFatal ==
    NoHostError =>
        /\ CatchOnlyForThrow
        /\ \A id \in TryIds :
              T[Pos("body", id)].sig.t \in {"BrewRuntimeError", "BrewReturn"} =>
                  \A b \in TryIds : (b = id \/ Encloses(b, id)) =>
                      ~(Has("catch", b) /\ Pos("catch", b) > Pos("body", id))
        /\ \A j \in ErrorPositions({"BrewRuntimeError"}) : result.t = "BrewRuntimeError"

(***************************************************************************)
(* C7 amended: a catch block is entered only for a user throw; a runtime   *)
(* error (a RuntimeError of the evaluator or an exception of the host)     *)
(* that no finally block replaces on its way enters the catch block of no  *)
(* try statement around it and ends interpret with that very error.        *)
(***************************************************************************)
ErrorsAreFatalUnlessReplaced ==
    /\ CatchOnlyForThrow
    /\ \A j \in ErrorPositions({"BrewRuntimeError", "PyError"}) :
          ~Superseded(j, 0) =>
              /\ result = T[j].sig
              /\ \A b \in InFlight(j) : Has("catch", b) => Pos("catch", b) < j

\* An undefined name inside a try block with a catch block and a finally
\* block, in a try block with a catch block: both catch blocks are skipped.
ErrorWitness ==
    \E id \in TryIds : \E b \in TryIds :
        /\ Encloses(b, id)
        /\ T[Pos("try", id)].hascatch /\ T[Pos("try", id)].hasfinally
        /\ T[Pos("try", b)].hascatch
        /\ T[Pos("body", id)].sig = UndefinedVariable("u")
        /\ T[Pos("body", b)].sig = UndefinedVariable("u")
        /\ ~Has("catch", id) /\ ~Has("catch", b)
        /\ result = UndefinedVariable("u")
        /\ exitcode = [t |-> "return", code |-> 1]

(***************************************************************************)
(* C9 as stated: a return statement executed while no user-function        *)
(* invocation is active makes interpret fail with a RuntimeError, which    *)
(* run reports with exit code 1.                                           *)
(***************************************************************************)
ReturnOutsideFunctionIsRuntimeError ==
    \A i \in DOMAIN T :
        (T[i].ev = "return" /\ T[i].depth = 0 /\ ~Superseded(i, 0)) =>
            /\ result.t = "BrewRuntimeError"
            /\ exitcode = [t |-> "return", code |-> 1]

\* What the code does instead: the BrewReturn leaves interpret and run.
ReturnOutsideFunctionEscapes ==
    \A i \in DOMAIN T :
        (T[i].ev = "return" /\ T[i].depth = 0 /\ ~Superseded(i, 0)) =>
            /\ result.t = "BrewReturn"
            /\ exitcode = [t |-> "raise", exc |-> "BrewReturn"]

(***************************************************************************)
(* Calls with the wrong number of arguments                                *)
(***************************************************************************)
ProbedCall == Probed /\ E.type = "CallExpr"
Callee == evaluate(E.callee, Before)

\* The call observed gives a user function, or a native function of fixed
\* arity, a number of arguments that is not the number it declares.
ArityMismatch ==
    /\ ProbedCall
    /\ Callee.sig.t = "normal"
    /\ \/ Callee.val.k = "function" /\ Len(E.args) /= Len(Callee.val.params)
       \/ /\ Callee.val.k = "native"
          /\ Callee.val.arity /= NoArity
          /\ Len(E.args) /= Callee.val.arity

\* C11: a call with the wrong number of arguments, of a user function or of
\* a native function of fixed arity, fails with a BrewRuntimeError (exit
\* code 1); nothing of the body or of the host callable has run (the history
\* has no new block, call or native event), no frame and no binding has been
\* created and no container has changed.
ArityErrorBeforeBody ==
    ArityMismatch =>
        /\ last.sig.t = "BrewRuntimeError"
        /\ last.sig.message.text \in {"Function expected args", "Native expected args"}
        /\ st.trace = Before.trace
        /\ st.frames = Before.frames
        /\ st.heap = Before.heap
        /\ exitcode = [t |-> "return", code |-> 1]

\* f(5, 6) for the one-parameter f.
ArityWitness ==
    /\ ArityMismatch
    /\ Callee.val.k = "function"
    /\ Len(E.args) = 2
    /\ Len(Callee.val.params) = 1

\* a.pop(5) for the native array.pop of arity 0.
NativeArityWitness ==
    /\ ArityMismatch
    /\ Callee.val.k = "native"
    /\ Callee.val.name = "array.pop"
    /\ Len(E.args) = 1

\* A call with the right number of arguments does run the body or the callable.
RightArityRuns ==
    /\ ProbedCall
    /\ Callee.sig.t = "normal"
    /\ Callee.val.k \in {"function", "native"}
    /\ ~ArityMismatch
    /\ st.trace /= Before.trace

(***************************************************************************)
(* Short circuit                                                           *)
(***************************************************************************)
\* The global n, which the right operands n = n + 1 and f(5) increment.
CountOf(s) == s.frames[1].values["n"]
LeftTruthy == is_truthy(Left.val, Left.st.heap)
\* The logical expression observed leaves its right operand alone.
Skips == (E.op = "&&") = ~LeftTruthy

EvaluatedWitness ==
    /\ ProbedBinary({"||"})
    /\ E.right.type = "CallExpr"
    /\ Left.val = StrV("")
    /\ last.val = IntV(5)
    /\ CountOf(st) = IntV(1)

(***************************************************************************)
(* Truthiness                                                              *)
(***************************************************************************)
\* The classification of the language manual: false for null, false, 0,
\* 0.0 and the empty string, true for everything else.
ManualTruthy(v) ==
    ~ \/ v.k = "null"
      \/ v.k = "bool" /\ ~v.b
      \/ v.k = "int" /\ v.n = 0
      \/ v.k = "float" /\ v.num = 0
      \/ v.k = "str" /\ v.s = ""

EmptyContainer(v, heap) ==
    \/ v.k = "array" /\ heap[v.ref].elems = <<>>
    \/ v.k = "dict" /\ heap[v.ref].entries = <<>>

ProbedNot == Probed /\ E.type = "UnaryExpr" /\ E.op = "!"
ProbedIf == last.op = "probe" /\ last.node.type = "IfStmt"
ProbedWhile == last.op = "probe" /\ last.node.type = "BlockStmt"
\* The value the observed statement tests.
Tested ==
    IF Probed /\ E.type = "UnaryExpr" THEN evaluate(E.right, Before)
    ELSE IF ProbedIf THEN evaluate(last.node.condition, Before)
    ELSE evaluate(last.node.statements[1].initializer, Before)
\* What the observed statement did: !x is false, the then branch of the if
\* ran (n = 1, the else branch sets n = 2), the body of the while ran.
TookTruthy ==
    IF ProbedNot THEN last.val = BoolV(FALSE)
    ELSE IF ProbedIf THEN CountOf(st) = IntV(1)
    ELSE CountOf(st) = IntV(CountOf(Before).n + 1)
ProbedTruth == (ProbedNot \/ ProbedIf \/ ProbedWhile) /\ Tested.sig.t = "normal"

\* C13: !x, if (x) and while (x) treat x as false exactly for null, false,
\* 0, 0.0 and the empty string, and as true for every other value, the
\* empty array and the empty object included.
TruthyAsInManual == ProbedTruth => (TookTruthy <=> ManualTruthy(Tested.val))

\* What is_truthy (bool of the host) does: the empty list and the empty
\* dict are false as well.
TruthyAsInHost ==
    ProbedTruth =>
        (TookTruthy <=> ManualTruthy(Tested.val) /\ ~EmptyContainer(Tested.val, Before.heap))

\* if (e) with e the empty array takes the else branch.
EmptyArrayIsFalsy ==
    /\ ProbedIf
    /\ Tested.val.k = "array"
    /\ EmptyContainer(Tested.val, Before.heap)
    /\ CountOf(st) = IntV(2)

(***************************************************************************)
(* Equality of containers                                                  *)
(***************************************************************************)
\* The expression observed compares two arrays or two objects.
ComparesContainers ==
    /\ ProbedBinary({"==", "!="})
    /\ EvaluatedBoth
    /\ Left.val.k \in {"array", "dict"}
    /\ Left.val.k = Right.val.k
SameContainer == Left.val.ref = Right.val.ref
\* The contents the two containers hold (items of the model are numbers).
ContentsOf(v) ==
    IF v.k = "array" THEN Before.heap[v.ref].elems ELSE Before.heap[v.ref].entries

\* C14: two arrays or two objects are == exactly when they are the same
\* container, and != is the negation.
ContainersCompareByIdentity ==
    ComparesContainers =>
        /\ last.sig = Normal
        /\ last.val = BoolV((E.op = "==") = SameContainer)

\* What == of the host does for two lists or two dicts: it compares contents.
ContainersCompareByContents ==
    ComparesContainers =>
        /\ last.sig = Normal
        /\ last.val = BoolV((E.op = "==") = (ContentsOf(Left.val) = ContentsOf(Right.val)))

\* a == c for two arrays made by two literals [1, 2] is true.
DistinctArraysAreEqual ==
    /\ ComparesContainers
    /\ E.op = "=="
    /\ Left.val.k = "array"
    /\ ~SameContainer
    /\ last.val = BoolV(TRUE)

(***************************************************************************)
(* The operator +                                                          *)
(***************************************************************************)
\* The numbers of the language manual: integers and floating values.
Numeric(v) == v.k \in {"int", "float"}
Failed == last.sig.t = "BrewRuntimeError" /\ exitcode = [t |-> "return", code |-> 1]
\* A host exception that no except clause of interpret or run catches.
Escaped(exc) == last.sig = PyError(exc) /\ exitcode = [t |-> "raise", exc |-> exc]

\* C15: + adds two numbers, concatenates as soon as one operand is a string
\* (the result is a string, for two strings their concatenation), and fails
\* with a BrewRuntimeError for every other pair of operands.
PlusAsInManual ==
    ProbedBinary({"+"}) /\ EvaluatedBoth =>
        IF Numeric(Left.val) /\ Numeric(Right.val)
        THEN last.sig = Normal /\ last.val = PyArith("+", Left.val, Right.val)
        ELSE IF Left.val.k = "str" \/ Right.val.k = "str"
        THEN /\ last.sig = Normal
             /\ last.val.k = "str"
             /\ Left.val.k = Right.val.k => last.val = StrV(Left.val.s \o Right.val.s)
        ELSE Failed

\* What left + right of the host does: numbers (booleans among them) add,
\* two strings concatenate, two arrays concatenate into a new array, and
\* every other pair raises a TypeError that leaves interpret and run.
PlusAsInHost ==
    ProbedBinary({"+"}) /\ EvaluatedBoth =>
        IF IsNumber(Left.val) /\ IsNumber(Right.val)
        THEN last.sig = Normal /\ last.val = PyArith("+", Left.val, Right.val)
        ELSE IF Left.val.k = "str" /\ Right.val.k = "str"
        THEN last.sig = Normal /\ last.val = StrV(Left.val.s \o Right.val.s)
        ELSE IF Left.val.k = "array" /\ Right.val.k = "array"
        THEN /\ last.sig = Normal
             /\ last.val = ArrayV(Len(Before.heap) + 1)
             /\ st.heap[last.val.ref].elems = ContentsOf(Left.val) \o ContentsOf(Right.val)
        ELSE Escaped("TypeError")

\* "a" + 1 raises the TypeError of the host.
StringPlusNumberEscapes ==
    /\ ProbedBinary({"+"})
    /\ Left.val = StrV("a")
    /\ Right.val = IntV(1)
    /\ Escaped("TypeError")

(***************************************************************************)
(* Division and modulo                                                     *)
(***************************************************************************)
DividesByZero ==
    /\ ProbedBinary({"/", "%"})
    /\ EvaluatedBoth
    /\ Numeric(Left.val) /\ Numeric(Right.val)
    /\ NumOf(Right.val) = 0

\* C16: x / y and x % y with numbers x and y, y zero (0 or 0.0), fail with
\* a BrewRuntimeError, which run reports with exit code 1.
DivisionByZeroIsRuntimeError == DividesByZero => Failed

\* What the host does: its ZeroDivisionError leaves interpret and run.
DivisionByZeroEscapes == DividesByZero => Escaped("ZeroDivisionError")

\* 7 / 0 raises the ZeroDivisionError of the host.
ZeroDivisionWitness ==
    /\ DividesByZero
    /\ E.op = "/"
    /\ Left.val = IntV(7)
    /\ Right.val = IntV(0)
    /\ Escaped("ZeroDivisionError")

\* The quotient of two integers truncated toward zero (b /= 0).
Truncated(a, b) ==
    IF (a < 0) = (b < 0) THEN Abs(a) \div Abs(b) ELSE -(Abs(a) \div Abs(b))

DividesNumbers ==
    /\ ProbedBinary({"/"})
    /\ EvaluatedBoth
    /\ Numeric(Left.val) /\ Numeric(Right.val)
    /\ NumOf(Right.val) /= 0

\* C17: x / y of two integers (y not zero) is the integer quotient truncated
\* toward zero; the result is floating only when an operand is floating.
IntegerDivisionTruncates ==
    DividesNumbers =>
        /\ last.sig = Normal
        /\ Left.val.k = "int" /\ Right.val.k = "int" =>
               last.val = IntV(Truncated(Left.val.n, Right.val.n))
        /\ last.val.k = "float" => Left.val.k = "float" \/ Right.val.k = "float"

\* What the host does: / is true division, the result is always a float.
DivisionIsTrueDivision ==
    DividesNumbers =>
        /\ last.sig = Normal
        /\ last.val = PyFloat(NumOf(Left.val) * DenOf(Right.val),
                              DenOf(Left.val) * NumOf(Right.val))

\* 7 / 2 is the float 3.5.
TrueDivisionWitness ==
    /\ DividesNumbers
    /\ Left.val = IntV(7)
    /\ Right.val = IntV(2)
    /\ last.val = FloatV(7, 2)

(***************************************************************************)
(* Operands of the arithmetic operators                                    *)
(***************************************************************************)
ProbedNegation == Probed /\ E.type = "UnaryExpr" /\ E.op = "-"
ProbedArithmetic ==
    \/ ProbedNegation /\ Tested.sig.t = "normal"
    \/ ProbedBinary({"-", "*", "/", "%"}) /\ EvaluatedBoth
\* The values the arithmetic expression observed is applied to.
OperandsOf == IF ProbedNegation THEN {Tested.val} ELSE {Left.val, Right.val}

\* C18: unary minus and the binary - * / % fail with a BrewRuntimeError as
\* soon as an operand is not an integer or a floating value.
NumericOperandsRequired ==
    ProbedArithmetic /\ (\E v \in OperandsOf : ~Numeric(v)) => Failed

\* What _ensure_number does: it lets the booleans through, as the integers
\* 1 and 0 they are for the host.
NumbersOrBooleansRequired ==
    ProbedArithmetic =>
        /\ (\E v \in OperandsOf : ~IsNumber(v)) =>
               Failed /\ last.sig.message = [text |-> "Expected number"]
        /\ (\A v \in OperandsOf : IsNumber(v)) => ~Failed

\* -true is -1.
BooleanNegatedWitness ==
    /\ ProbedNegation
    /\ Tested.val = BoolV(TRUE)
    /\ last.sig = Normal
    /\ last.val = IntV(-1)

(***************************************************************************)
(* Ordering                                                                *)
(***************************************************************************)
Compares == ProbedBinary({"<", "<=", ">", ">="}) /\ EvaluatedBoth
IsBoolean(r) == r.sig = Normal /\ r.val.k = "bool"

\* C19: < <= > >= give a boolean for two numbers and for two strings, and
\* fail with a BrewRuntimeError for every other pair of operands.
ComparisonAsInManual ==
    Compares =>
        IF \/ Numeric(Left.val) /\ Numeric(Right.val)
           \/ Left.val.k = "str" /\ Right.val.k = "str"
        THEN IsBoolean(last)
        ELSE Failed

\* What the host does: booleans compare as numbers, two arrays compare
\* item by item, and every other pair raises a TypeError that leaves
\* interpret and run.
ComparisonAsInHost ==
    Compares =>
        IF \/ IsNumber(Left.val) /\ IsNumber(Right.val)
           \/ Left.val.k = "str" /\ Right.val.k = "str"
           \/ Left.val.k = "array" /\ Right.val.k = "array"
        THEN IsBoolean(last)
        ELSE Escaped("TypeError")

\* 1 < "a" raises the TypeError of the host.
ComparisonEscapesWitness ==
    /\ Compares
    /\ E.op = "<"
    /\ Left.val = IntV(1)
    /\ Right.val = StrV("a")
    /\ Escaped("TypeError")

(***************************************************************************)
(* Array indexes                                                           *)
(***************************************************************************)
ProbedStore == Probed /\ E.type = "AssignExpr" /\ E.target.type = "IndexExpr"
ProbedIndex == Probed /\ E.type = "IndexExpr"
IndexNode == IF ProbedStore THEN E.target ELSE E
Array == evaluate(IndexNode.obj, Before)
Index == evaluate(IndexNode.index, Before)
\* a[i] or a[i] = v observed, with a an array and i an integer.
IndexesArray ==
    /\ ProbedStore \/ ProbedIndex
    /\ Array.sig.t = "normal" /\ Index.sig.t = "normal"
    /\ Array.val.k = "array"
    /\ Index.val.k = "int"
ItemsOf(s) == s.heap[Array.val.ref].elems
Succeeded ==
    /\ last.sig = Normal
    /\ IF ProbedStore
       THEN /\ last.val = IntV(9)
            /\ Len(ItemsOf(st)) = Len(ItemsOf(Before))
            /\ \E p \in DOMAIN ItemsOf(st) :
                   ItemsOf(st) = [ItemsOf(Before) EXCEPT ![p] = IntV(9)]
       ELSE st = Before /\ \E p \in DOMAIN ItemsOf(st) : last.val = ItemsOf(st)[p]
FailedUnchanged == Failed /\ st.heap = Before.heap

\* C20: reading a[i] and assigning a[i] = v succeed exactly when
\* 0 <= i < n for the length n of a; for every other integer i they fail
\* with a BrewRuntimeError and leave the array unchanged.
IndexWithinBounds ==
    IndexesArray =>
        IF 0 <= Index.val.n /\ Index.val.n < Len(ItemsOf(Before))
        THEN Succeeded
        ELSE FailedUnchanged

\* What the host does: an index from -n to -1 counts from the end.
IndexWrapsAround ==
    IndexesArray =>
        IF -Len(ItemsOf(Before)) <= Index.val.n /\ Index.val.n < Len(ItemsOf(Before))
        THEN Succeeded
        ELSE FailedUnchanged /\ last.sig.message.text = "Index error"

\* a[-1] = 9 on a = [1, 2] succeeds and leaves [1, 9].
NegativeIndexWitness ==
    /\ IndexesArray
    /\ ProbedStore
    /\ Index.val = IntV(-1)
    /\ ItemsOf(Before) = <<IntV(1), IntV(2)>>
    /\ last.sig = Normal
    /\ ItemsOf(st) = <<IntV(1), IntV(9)>>

(***************************************************************************)
(* Object indexes                                                          *)
(***************************************************************************)
\* o[i] = 9 observed, with o an object, and it succeeded.
StoredInObject ==
    /\ ProbedStore
    /\ Array.sig.t = "normal" /\ Index.sig.t = "normal"
    /\ Array.val.k = "dict"
    /\ last.sig = Normal
EntriesOf(s) == s.heap[Array.val.ref].entries
KeysOf(s) == {EntriesOf(s)[i].key : i \in DOMAIN EntriesOf(s)}
\* The string form of an index, for the indexes that have one written here.
Digits == <<"0", "1", "2", "3">>
HasText(v) == v.k = "str" \/ (v.k = "int" /\ v.n \in 0 .. Len(Digits) - 1)
TextOf(v) == IF v.k = "str" THEN v.s ELSE Digits[v.n + 1]
\* o[index] read after the assignment.
ReadBack(index) == _get_index(Array.val, index, IndexNode, st)

\* C21: o[i] = v on an object stores v under the string form of i: o["1"]
\* yields v after o[1] = v, and the keys of the object remain strings.
IndexCoercedToString ==
    StoredInObject /\ HasText(Index.val) =>
        /\ \A key \in KeysOf(st) : key.k = "str"
        /\ ReadBack(StrV(TextOf(Index.val))).sig = Normal
        /\ ReadBack(StrV(TextOf(Index.val))).val = IntV(9)

\* What the code does: the index is the key as it is, so o[i] yields v and
\* the string form of an integer i is no key of the object.
IndexStoredAsGiven ==
    StoredInObject =>
        /\ \E key \in KeysOf(st) : KeyEq(key, Index.val) /\ key.k = Index.val.k
        /\ ReadBack(Index.val).sig = Normal
        /\ ReadBack(Index.val).val = IntV(9)
        /\ Index.val.k = "int" /\ HasText(Index.val) =>
               /\ ReadBack(StrV(TextOf(Index.val))).sig.t = "BrewRuntimeError"
               /\ ReadBack(StrV(TextOf(Index.val))).sig.message.text = "Index error"

\* p[1] = 9 on p = {k: 1} leaves the keys "k" and 1.
IntegerKeyWitness ==
    /\ StoredInObject
    /\ Index.val = IntV(1)
    /\ KeysOf(Before) = {StrV("k")}
    /\ KeysOf(st) = {StrV("k"), IntV(1)}

(***************************************************************************)
(* The sharing scenario: two names for one array and two for one object,   *)
(* a function that receives them as parameters and a closure that keeps    *)
(* them in captured bindings, followed by operations through any of them.  *)
(***************************************************************************)
Member(name, field) == MemberExpr(Id(name), field, At(60))
Item(name, i) == IndexExpr(Id(name), Num(i), At(60))

\*  obj a = [1, 2]; obj b = a; obj o = {}; obj r = o;
\*  obj g = function(x, y) { x.push(7); y.k = 7; return a.length; };
\*  obj mk = function() { obj l = a; obj m = o;
\*                        return function(v) { l.push(v); m.k = v; return b.length; }; };
\*  obj h = mk();
Sharing ==
    <<VarDecl("a", ArrayLiteral(<<Num(1), Num(2)>>, At(1)), At(1)),
      VarDecl("b", Id("a"), At(2)),
      VarDecl("o", ObjectLiteral(<<>>, At(3)), At(3)),
      VarDecl("r", Id("o"), At(4)),
      VarDecl("g", FunctionExpr(NoName, <<"x", "y">>,
                     <<ExpressionStmt(CallExpr(Member("x", "push"), <<Num(7)>>, At(5)), At(5)),
                       ExpressionStmt(AssignExpr(Member("y", "k"), Num(7), At(5)), At(5)),
                       ReturnStmt(Member("a", "length"), At(5))>>, At(5)), At(5)),
      VarDecl("mk", FunctionExpr(NoName, <<>>,
                     <<VarDecl("l", Id("a"), At(6)),
                       VarDecl("m", Id("o"), At(6)),
                       ReturnStmt(FunctionExpr(NoName, <<"v">>,
                         <<ExpressionStmt(CallExpr(Member("l", "push"), <<Id("v")>>, At(7)),
                                          At(7)),
                           ExpressionStmt(AssignExpr(Member("m", "k"), Id("v"), At(7)), At(7)),
                           ReturnStmt(Member("b", "length"), At(7))>>, At(7)), At(6))>>,
                     At(6)), At(6)),
      VarDecl("h", CallExpr(Id("mk"), <<>>, At(8)), At(8))>>

ArrayNames == {"a", "b"}
ObjectNames == {"o", "r"}
Pushes == {CallExpr(Member(via, "push"), <<Num(5)>>, At(61)) : via \in ArrayNames}
Pops == {CallExpr(Member(via, "pop"), <<>>, At(62)) : via \in ArrayNames}
ItemStores == {AssignExpr(Item(via, 0), Num(9), At(63)) : via \in ArrayNames}
FieldStores == {AssignExpr(Member(via, "k"), Num(1), At(64)) : via \in ObjectNames}
ParameterCalls == {CallExpr(Id("g"), <<Id("a"), Id("o")>>, At(65)),
                   CallExpr(Id("g"), <<Id("b"), Id("r")>>, At(65))}
ClosureCalls == {CallExpr(Id("h"), <<Num(6)>>, At(66))}
Mutations ==
    Pushes \cup Pops \cup ItemStores \cup FieldStores \cup ParameterCalls \cup ClosureCalls

InitShare == mode = "share" /\ InitAny

\* One iteration of the loop of interpret over the declarations.
DeclareShared ==
    /\ result = Running
    /\ Len(program) < Len(Sharing)
    /\ Bind(execute(Sharing[Len(program) + 1], st), LAMBDA r :
           /\ st' = r.st
           /\ result' = IF r.sig.t = "normal" THEN Running ELSE interpret_raises(r.sig))
    /\ exitcode' = run(result')
    /\ program' = Append(program, Sharing[Len(program) + 1])
    /\ UNCHANGED <<mode, last>>

\* One iteration of the loop over an expression statement that mutates.
Mutate(expr) ==
    /\ result = Running
    /\ Len(program) >= Len(Sharing)
    /\ Len(program) < Len(Sharing) + MaxOps
    /\ Bind(evaluate(expr, st), LAMBDA r :
           /\ st' = r.st
           /\ last' = [op |-> "probe", node |-> ExpressionStmt(expr, expr.span),
                       before |-> st, sig |-> r.sig, val |-> r.val]
           /\ result' = IF r.sig.t = "normal" THEN Running ELSE interpret_raises(r.sig))
    /\ exitcode' = run(result')
    /\ program' = Append(program, ExpressionStmt(expr, expr.span))
    /\ UNCHANGED mode

ShareNext ==
    \/ DeclareShared
    \/ \E expr \in Mutations : Mutate(expr)
    \/ Finish

ShareSpec == InitShare /\ [][ShareNext]_vars

(***************************************************************************)
(* Sharing by reference                                                    *)
(***************************************************************************)
\* The declarations have been executed and an operation has been observed.
Mutated == Len(program) > Len(Sharing) /\ last.op = "probe"
\* What a program reads through one name: the outcome and the value.
Read(expr, s) == [sig |-> evaluate(expr, s).sig, val |-> evaluate(expr, s).val]
Got(value) == [sig |-> Normal, val |-> value]
LengthVia(via, s) == Read(Member(via, "length"), s).val.n
LastVia(via, s) == Read(Item(via, LengthVia(via, s) - 1), s)
\* Both names of the array, and both names of the object, read the same.
SameThroughAliases(s) ==
    /\ \A x \in ArrayNames, y \in ArrayNames :
           /\ LengthVia(x, s) = LengthVia(y, s)
           /\ \A i \in 0 .. LengthVia(x, s) : Read(Item(x, i), s) = Read(Item(y, i), s)
    /\ \A x \in ObjectNames, y \in ObjectNames :
           Read(Member(x, "k"), s) = Read(Member(y, "k"), s)
\* Through every name the array has grown by the item and the field is set.
Grown(item) ==
    \A via \in ArrayNames :
        /\ LengthVia(via, st) = LengthVia(via, Before) + 1
        /\ LastVia(via, st) = Got(item)
FieldIs(value) == \A via \in ObjectNames : Read(Member(via, "k"), st) = Got(value)
\* The operation observed has done, through every name, what it was to do.
SeenThroughAliases ==
    CASE E \in Pushes -> Grown(IntV(5))
      [] E \in Pops ->
           \A via \in ArrayNames :
               IF LengthVia(via, Before) = 0
               THEN LengthVia(via, st) = 0 /\ last.val = Null
               ELSE /\ LengthVia(via, st) = LengthVia(via, Before) - 1
                    /\ Got(last.val) = LastVia(via, Before)
      [] E \in ItemStores -> \A via \in ArrayNames : Read(Item(via, 0), st) = Got(IntV(9))
      [] E \in FieldStores -> FieldIs(IntV(1))
      [] E \in ParameterCalls ->
           /\ Grown(IntV(7))
           /\ FieldIs(IntV(7))
           /\ \A via \in ArrayNames : last.val = IntV(LengthVia(via, st))
      [] E \in ClosureCalls ->
           /\ Grown(IntV(6))
           /\ FieldIs(IntV(6))
           /\ \A via \in ArrayNames : last.val = IntV(LengthVia(via, st))
\* The calls of push and of pop so far (a is the only array of the program).
Calls(name) == {i \in DOMAIN st.trace : st.trace[i].ev = "native" /\ st.trace[i].name = name}

\* C22: arrays and objects are shared by reference: what is done through
\* one name of a container (a variable, a parameter, a binding captured by
\* a closure) is read through every other, and after k pushes and no pop
\* the length of an array of length n is n + k through every name.
SharedByReference ==
    Len(program) >= Len(Sharing) =>
        /\ SameThroughAliases(st)
        /\ Mutated /\ last.sig = Normal => SeenThroughAliases
        /\ Calls("array.pop") = {} =>
               \A via \in ArrayNames : LengthVia(via, st) =
                       Len(Sharing[1].initializer.items) + Cardinality(Calls("array.push"))

\* b.push(5), then h(6) through the captured binding, then g(a, o) through
\* the parameters: a.length is 5 and o.k is 7.
SharedWitness ==
    /\ Mutated
    /\ Len(program) = Len(Sharing) + MaxOps
    /\ program[Len(Sharing) + 1].expr \in Pushes
    /\ program[Len(Sharing) + 2].expr \in ClosureCalls
    /\ E \in ParameterCalls
    /\ last.sig = Normal
    /\ last.val = IntV(5)
    /\ Cardinality(Calls("array.push")) = 3
    /\ Read(Member("b", "length"), st) = Got(IntV(5))
    /\ Read(Member("r", "k"), st) = Got(IntV(7))

(***************************************************************************)
(* The ordering scenario: every subexpression of the expression observed   *)
(* is a call t(k, v), which appends its mark k to the array log and        *)
(* returns v; the body of w appends the mark 0.                            *)
(***************************************************************************)
T_(k, v) == CallExpr(Id("t"), <<Num(k), v>>, At(50))

\*  obj log = []; obj a = [1, 2]; obj o = {k: 1}; obj n = 0;
\*  obj t = function(k, v) { log.push(k); return v; };
\*  obj w = function(x, y) { log.push(0); return x; };
Marking ==
    <<VarDecl("log", ArrayLiteral(<<>>, At(1)), At(1)),
      VarDecl("a", ArrayLiteral(<<Num(1), Num(2)>>, At(2)), At(2)),
      VarDecl("o", ObjectLiteral(<<<<"k", Num(1)>>>>, At(3)), At(3)),
      VarDecl("n", Num(0), At(4)),
      VarDecl("t", FunctionExpr(NoName, <<"k", "v">>,
                     <<ExpressionStmt(CallExpr(Member("log", "push"), <<Id("k")>>, At(5)),
                                      At(5)),
                       ReturnStmt(Id("v"), At(5))>>, At(5)), At(5)),
      VarDecl("w", FunctionExpr(NoName, <<"x", "y">>,
                     <<ExpressionStmt(CallExpr(Member("log", "push"), <<Num(0)>>, At(6)),
                                      At(6)),
                       ReturnStmt(Id("x"), At(6))>>, At(6)), At(6))>>

Scalars == {Lit(IntV(0)), Lit(IntV(1)), Lit(IntV(2)), Lit(StrV("a")), Lit(Null)}
Marked ==
    {BinaryExpr(T_(1, x), op, T_(2, y), At(51)) : x \in Scalars, y \in Scalars, op \in BinaryOps}
    \cup {BinaryExpr(T_(1, x), "-", BinaryExpr(T_(2, y), "*", T_(3, Num(2)), At(52)), At(52)) :
              x \in Scalars, y \in Scalars}
    \cup {BinaryExpr(BinaryExpr(T_(1, x), "-", T_(2, y), At(53)), "*", T_(3, Num(2)), At(53)) :
              x \in Scalars, y \in Scalars}
    \cup {CallExpr(T_(1, f), args, At(54)) :
              f \in {Id("w"), Lit(Null)},
              args \in {<<>>, <<T_(2, Num(5))>>, <<T_(2, Num(5)), T_(3, Num(6))>>}}
    \cup {ArrayLiteral(<<T_(1, x), T_(2, y), T_(3, Num(2))>>, At(55)) :
              x \in Scalars, y \in Scalars}
    \cup {ObjectLiteral(<<<<"p", T_(1, x)>>, <<"q", T_(2, y)>>>>, At(56)) :
              x \in Scalars, y \in Scalars}
    \cup {IndexExpr(T_(1, x), T_(2, i), At(57)) : x \in {Id("a"), Id("o"), Lit(Null)},
                                                   i \in Scalars}
    \cup {MemberExpr(T_(1, x), "k", At(58)) : x \in {Id("a"), Id("o")}}
    \cup {AssignExpr(Id("n"), T_(1, x), At(59)) : x \in Scalars}
    \cup {AssignExpr(IndexExpr(T_(1, x), T_(2, i), At(59)), T_(3, Num(9)), At(59)) :
              x \in {Id("a"), Id("o"), Lit(Null)}, i \in Scalars}
    \cup {AssignExpr(MemberExpr(T_(1, x), "k", At(59)), T_(2, Num(9)), At(59)) :
              x \in {Id("a"), Id("o")}}

InitOrder == mode = "order" /\ InitAny

\* One iteration of the loop of interpret over the declarations.
DeclareMarking ==
    /\ result = Running
    /\ Len(program) < Len(Marking)
    /\ Bind(execute(Marking[Len(program) + 1], st), LAMBDA r :
           /\ st' = r.st
           /\ result' = IF r.sig.t = "normal" THEN Running ELSE interpret_raises(r.sig))
    /\ exitcode' = run(result')
    /\ program' = Append(program, Marking[Len(program) + 1])
    /\ UNCHANGED <<mode, last>>

\* The iteration of the loop over the expression statement observed.
EvaluateMarked(expr) ==
    /\ result = Running
    /\ Len(program) = Len(Marking)
    /\ Bind(evaluate(expr, st), LAMBDA r :
           /\ st' = r.st
           /\ last' = [op |-> "probe", node |-> ExpressionStmt(expr, expr.span),
                       before |-> st, sig |-> r.sig, val |-> r.val]
           /\ result' = IF r.sig.t = "normal" THEN Running ELSE interpret_raises(r.sig))
    /\ exitcode' = run(result')
    /\ program' = Append(program, ExpressionStmt(expr, expr.span))
    /\ UNCHANGED mode

OrderNext ==
    \/ DeclareMarking
    \/ \E expr \in Marked : EvaluateMarked(expr)
    \/ Finish

OrderSpec == InitOrder /\ [][OrderNext]_vars

(***************************************************************************)
(* Evaluation order                                                        *)
(***************************************************************************)
RECURSIVE Marks(_, _), MarksOfList(_, _)
\* The marks of an expression in the order in which it is written; for an
\* assignment the target before the value when targetFirst, else after it.
\* A call that is not a call of t runs the body of its callee, whose mark
\* is 0, after the callee and the arguments.
Marks(expr, targetFirst) ==
    CASE expr.type = "CallExpr" ->
           IF expr.callee = Id("t") THEN <<expr.args[1].value.n>>
           ELSE Marks(expr.callee, targetFirst) \o MarksOfList(expr.args, targetFirst) \o <<0>>
      [] expr.type = "BinaryExpr" ->
           Marks(expr.left, targetFirst) \o Marks(expr.right, targetFirst)
      [] expr.type = "ArrayLiteral" -> MarksOfList(expr.items, targetFirst)
      [] expr.type = "ObjectLiteral" ->
           MarksOfList([i \in DOMAIN expr.pairs |-> expr.pairs[i][2]], targetFirst)
      [] expr.type = "IndexExpr" ->
           Marks(expr.obj, targetFirst) \o Marks(expr.index, targetFirst)
      [] expr.type = "MemberExpr" -> Marks(expr.obj, targetFirst)
      [] expr.type = "AssignExpr" ->
           IF targetFirst
           THEN Marks(expr.target, targetFirst) \o Marks(expr.value, targetFirst)
           ELSE Marks(expr.value, targetFirst) \o Marks(expr.target, targetFirst)
      [] expr.type \in {"Literal", "Identifier", "FunctionExpr"} -> <<>>
MarksOfList(exprs, targetFirst) ==
    IF exprs = <<>> THEN <<>>
    ELSE Marks(Head(exprs), targetFirst) \o MarksOfList(Tail(exprs), targetFirst)

Traced == Len(program) > Len(Marking) /\ last.op = "probe"
\* The marks appended to log, in the order of their appending.
LogOf(s) == s.heap[s.frames[1].values["log"].ref].elems
Appended == [i \in DOMAIN LogOf(st) |-> LogOf(st)[i].n]
IsPrefix(p, q) == Len(p) <= Len(q) /\ p = SubSeq(q, 1, Len(p))
\* Every operand has been evaluated: no exception, no operand skipped.
Whole == last.sig = Normal /\ (E.type = "BinaryExpr" => E.op \notin {"&&", "||"})
InOrder(marks) == IsPrefix(Appended, marks) /\ (Whole => Appended = marks)

\* C23: within every expression the side effects of the subexpressions
\* occur in the order in which they are written: left operand before right,
\* callee before arguments, arguments, items and values in order, the object
\* and the index of an assignment target before the assigned value; and all
\* arguments are evaluated before the first statement of the callee's body.
LeftToRightOrder == Traced => InOrder(Marks(E, TRUE))

\* What the code does: the assigned value is evaluated first, then the
\* object and the index of the target.
ValueBeforeTarget == Traced => InOrder(Marks(E, FALSE))

\* t(1, a)[t(2, 0)] = t(3, 9) appends 3, 1, 2.
ValueFirstWitness ==
    /\ Traced
    /\ E.type = "AssignExpr" /\ E.target.type = "IndexExpr"
    /\ last.sig = Normal
    /\ Appended = <<3, 1, 2>>

(***************************************************************************)
(* The lexer.  A source is a sequence of characters; index counts the      *)
(* characters consumed, as in the code (source[index] is the next one).    *)
(***************************************************************************)
KEYWORDS == {"obj", "function", "if", "else", "while", "return", "true", "false",
             "null", "try", "catch", "finally", "throw"}

Quote == "\""
Backslash == "\\"
Newline == "\n"
\* The "\0" that _peek and _peek_next return at the end; no source holds it.
NUL == "\\0"

\* The characters of the sources drawn, by the classes the lexer tests.
Alpha == {"i", "f", "n"}
Digit == {"1"}
Blank == {" ", "\r", "\t", Newline}
TwoCharOps == {"==", "!=", "<=", ">=", "&&", "||"}
OneCharOps == {"+", "-", "*", "/", "%", "<", ">", "=", "!", "."}
Punctuation == {",", ";", ":", "(", ")", "{", "}", "[", "]"}

Token(kind, value, span) == [kind |-> kind, value |-> value, span |-> span]
LexerError(text, span) == [t |-> "LexerError", message |-> text, span |-> span]

\* Lexer.__init__; starts records, for each token appended, the number of
\* characters consumed when its scanning began.
Lexer(source) ==
    [source |-> source, index |-> 0, line |-> 1, column |-> 1,
     tokens |-> <<>>, starts |-> <<>>]

\* Lexer._is_at_end
_is_at_end(l) == l.index >= Len(l.source)

\* Lexer._peek
_peek(l) == IF _is_at_end(l) THEN NUL ELSE l.source[l.index + 1]

\* Lexer._peek_next
_peek_next(l) == IF l.index + 1 >= Len(l.source) THEN NUL ELSE l.source[l.index + 2]

\* An _advance that counts a newline as one more column of the same line.
_advance_same_line(l) ==
    IF _is_at_end(l) THEN [l |-> l, ch |-> NUL, sig |-> PyError("IndexError")]
    ELSE [l |-> [l EXCEPT !.index = @ + 1, !.column = @ + 1],
          ch |-> l.source[l.index + 1], sig |-> Normal]

\* Lexer._advance: the lexer after it and the character returned;
\* source[index] past the end raises the IndexError of the host.
_advance(l) ==
    IF _is_at_end(l) THEN [l |-> l, ch |-> NUL, sig |-> PyError("IndexError")]
    ELSE [l |-> IF l.source[l.index + 1] = Newline
                THEN [l EXCEPT !.index = @ + 1, !.line = @ + 1, !.column = 1]
                ELSE [l EXCEPT !.index = @ + 1, !.column = @ + 1],
          ch |-> l.source[l.index + 1], sig |-> Normal]

RECURSIVE to_line_end(_), to_comment_end(_), _skip_whitespace(_), _consume_while(_, _),
          scan_string(_, _)

\* while not self._is_at_end() and self._peek() != "\n": self._advance()
to_line_end(l) ==
    IF ~_is_at_end(l) /\ _peek(l) /= Newline THEN to_line_end(_advance(l).l) ELSE l

\* while not at end and not (peek == "*" and peek_next == "/"): self._advance()
to_comment_end(l) ==
    IF ~_is_at_end(l) /\ ~(_peek(l) = "*" /\ _peek_next(l) = "/")
    THEN to_comment_end(_advance(l).l)
    ELSE l

\* Lexer._skip_whitespace
_skip_whitespace(l) ==
    IF _is_at_end(l) THEN [l |-> l, sig |-> Normal]
    ELSE IF _peek(l) \in Blank THEN _skip_whitespace(_advance(l).l)
    ELSE IF _peek(l) = "/" /\ _peek_next(l) = "/"
         THEN _skip_whitespace(to_line_end(_advance(_advance(l).l).l))
    ELSE IF _peek(l) = "/" /\ _peek_next(l) = "*"
         THEN Bind(to_comment_end(_advance(_advance(l).l).l), LAMBDA c :
                  IF _is_at_end(c)
                  THEN [l |-> c, sig |-> LexerError("Unterminated block comment", None)]
                  ELSE _skip_whitespace(_advance(_advance(c).l).l))
    ELSE [l |-> l, sig |-> Normal]

\* Lexer._consume_while, the predicate given as the set of characters it
\* accepts: the lexer after it and the text consumed.
_consume_while(l, accepted) ==
    IF ~_is_at_end(l) /\ _peek(l) \in accepted
    THEN Bind(_consume_while(_advance(l).l, accepted), LAMBDA r :
             [l |-> r.l, out |-> _peek(l) \o r.out])
    ELSE [l |-> l, out |-> ""]

\* escapes.get(esc, esc)
escapes(esc) ==
    CASE esc = "n" -> "\n"
      [] esc = "t" -> "\t"
      [] esc = "r" -> "\r"
      [] OTHER -> esc

\* The loop of tokenize over the characters of a string literal, up to the
\* closing quote or the end of the source.
scan_string(l, value) ==
    IF ~_is_at_end(l) /\ _peek(l) /= Quote
    THEN IF _peek(l) = Backslash
         THEN Bind(_advance(_advance(l).l), LAMBDA esc :
                  IF esc.sig /= Normal THEN [l |-> esc.l, value |-> value, sig |-> esc.sig]
                  ELSE scan_string(esc.l, value \o escapes(esc.ch)))
         ELSE scan_string(_advance(l).l, value \o _peek(l))
    ELSE [l |-> l, value |-> value, sig |-> Normal]

\* tokens.append(Token(kind, value, SourceSpan(start_line, start_col)))
append(l, kind, value, start) ==
    [l |-> [l EXCEPT !.tokens = Append(@, Token(kind, value,
                                                SourceSpan(start.line, start.column))),
                     !.starts = Append(@, start.index)],
     sig |-> Normal]

\* The body of the loop of tokenize after _skip_whitespace, the source not
\* at its end: one token appended, or a failure.  start is the lexer before
\* the first character of the token, l the lexer after it, ch the character.
scan_token(start, l, ch) ==
    CASE ch \in Alpha \cup {"_"} ->
           Bind(_consume_while(l, Alpha \cup Digit \cup {"_"}), LAMBDA r :
               append(r.l, IF ch \o r.out \in KEYWORDS THEN "KEYWORD" ELSE "IDENT",
                      ch \o r.out, start))
      [] ch \in Digit ->
           Bind(_consume_while(l, Digit \cup {"."}), LAMBDA r :
               append(r.l, "NUMBER", ch \o r.out, start))
      [] ch = Quote ->
           Bind(scan_string(l, ""), LAMBDA r :
               IF r.sig /= Normal THEN [l |-> r.l, sig |-> r.sig]
               ELSE IF _is_at_end(r.l)
               THEN [l |-> r.l, sig |-> LexerError("Unterminated string literal", None)]
               ELSE append(_advance(r.l).l, "STRING", r.value, start))
      [] ch \notin Alpha \cup Digit \cup {"_", Quote} ->
           IF ch \o _peek(l) \in TwoCharOps
           THEN append(_advance(l).l, "OP", ch \o _peek(l), start)
           ELSE IF ch \in OneCharOps \cup Punctuation
           THEN append(l, IF ch \in OneCharOps THEN "OP" ELSE "PUNCT", ch, start)
           ELSE [l |-> l, sig |-> LexerError("Unexpected character",
                                             SourceSpan(start.line, start.column))]

\* tokens.append(Token("EOF", "", SourceSpan(self.line, self.column)))
append_eof(l) == append(l, "EOF", "", l).l

\* The texts sources are made of, and the sources of up to MaxPieces texts.
Pieces ==
    {<<"n">>, <<"i", "f">>, <<"1">>, <<".">>, <<" ">>, <<Newline>>, <<Quote>>,
     <<Backslash>>, <<"/">>, <<"/", "*">>, <<"*", "/">>, <<"=">>, <<"&">>, <<";">>}
RECURSIVE Flatten(_)
Flatten(texts) == IF texts = <<>> THEN <<>> ELSE Head(texts) \o Flatten(Tail(texts))
Sources == {Flatten(texts) : texts \in UNION {[1 .. n -> Pieces] : n \in 0 .. MaxPieces}}

\* Lexer(source), tokenize entered.
InitLex ==
    /\ mode = "lex"
    /\ program = <<>>
    /\ st \in {Lexer(source) : source \in Sources}
    /\ result = Running
    /\ exitcode = run(Running)
    /\ last = NoLast

\* tokenize is left: by return (run goes on to the parser) or by exception.
Leave(outcome) ==
    /\ result' = outcome
    /\ exitcode' = IF outcome = Returned THEN exitcode ELSE run(outcome)
    /\ UNCHANGED <<mode, program, last>>

\* One iteration of the loop of tokenize; when only blanks and comments
\* were left, the break, the EOF token and the return.
Scan ==
    /\ result = Running
    /\ ~_is_at_end(st)
    /\ Bind(_skip_whitespace(st), LAMBDA w :
           IF w.sig /= Normal THEN st' = w.l /\ Leave(w.sig)
           ELSE IF _is_at_end(w.l) THEN st' = append_eof(w.l) /\ Leave(Returned)
           ELSE Bind(scan_token(w.l, _advance(w.l).l, _advance(w.l).ch), LAMBDA r :
                    st' = r.l /\ Leave(IF r.sig = Normal THEN Running ELSE r.sig)))

\* The loop condition is false: the EOF token and the return.
EndOfInput ==
    /\ result = Running
    /\ _is_at_end(st)
    /\ st' = append_eof(st)
    /\ Leave(Returned)

LexNext == Scan \/ EndOfInput

LexSpec == InitLex /\ [][LexNext]_vars

(***************************************************************************)
(* Token positions                                                         *)
(***************************************************************************)
Lexing == mode = "lex"
\* The tokens appended so far, the end-of-input token excluded.
Lexemes == {i \in DOMAIN st.tokens : st.tokens[i].kind /= "EOF"}
\* The newlines among the first n characters of the source.
NewlinesIn(n) == {j \in 1 .. n : st.source[j] = Newline}
LastNewlineIn(n) ==
    IF NewlinesIn(n) = {} THEN 0
    ELSE CHOOSE j \in NewlinesIn(n) : \A k \in NewlinesIn(n) : k <= j
\* The line and column of the character that follows the first n.
PositionAfter(n) == SourceSpan(1 + Cardinality(NewlinesIn(n)), 1 + (n - LastNewlineIn(n)))

\* C24: every token but the end-of-input token records the line and the
\* column of its first character: 1 plus the newlines before it, and 1 plus
\* the characters between the last newline before it (or the start of the
\* source) and it; also after strings and comments that contain newlines.
TokenPositions ==
    Lexing =>
        \A i \in Lexemes :
            /\ st.starts[i] < Len(st.source)
            /\ st.source[st.starts[i] + 1] \notin Blank
            /\ st.tokens[i].span = PositionAfter(st.starts[i])

\*  /*
\*  */n    tokenizes to the identifier n at 2:3.
PositionWitness ==
    /\ Lexing
    /\ result = Returned
    /\ st.source = <<"/", "*", Newline, "*", "/", "n">>
    /\ st.tokens[1] = Token("IDENT", "n", SourceSpan(2, 3))

(***************************************************************************)
(* Outcomes of tokenize                                                    *)
(***************************************************************************)
\* The token sequence returned ends with the only end-of-input token.
EndsWithEOF ==
    /\ st.tokens /= <<>>
    /\ \A i \in DOMAIN st.tokens : (st.tokens[i].kind = "EOF") = (i = Len(st.tokens))

\* C25: tokenize either returns a token sequence whose last element, and
\* only that one, is the end-of-input token, or fails with a LexerError and
\* with no other kind of failure; so for a string literal with no closing
\* quote (also one whose last character is a backslash), a block comment
\* with no closing */ and a character that starts no lexeme.
ReturnsOrLexerError ==
    Lexing =>
        /\ result.t \in {"running", "returned", "LexerError"}
        /\ result = Returned => EndsWithEOF

\* What the code does: in a string literal left open, a backslash that is
\* the last character of the source raises the IndexError of the host,
\* which leaves run.
ReturnsOrLexerErrorOrIndexError ==
    Lexing =>
        /\ result.t \in {"running", "returned", "LexerError", "PyError"}
        /\ result = Returned => EndsWithEOF
        /\ result.t = "PyError" =>
               /\ result = PyError("IndexError")
               /\ exitcode = [t |-> "raise", exc |-> "IndexError"]
               /\ st.source[Len(st.source)] = Backslash
               /\ _is_at_end(st)
        /\ result.t = "LexerError" => exitcode = [t |-> "return", code |-> 1]

\* tokenize terminates: every iteration of its loop consumes a character
\* or leaves it.
ScanProgresses ==
    [][Lexing /\ result = Running => st'.index > st.index \/ result' /= Running]_vars

\* The source "\ (a quote, then a backslash) raises IndexError.
BackslashWitness ==
    /\ Lexing
    /\ st.source = <<Quote, Backslash>>
    /\ result = PyError("IndexError")

(***************************************************************************)
(* The parser.  index counts the tokens consumed, as in the code           *)
(* (tokens[index] is the next one).  A parsing method is an operator from  *)
(* the parser to the parser after it, the node returned and the exception  *)
(* raised, if any.                                                         *)
(***************************************************************************)
Program(statements) == [type |-> "Program", statements |-> statements]
\* ParseError(message); cited is the span whose line:column the message
\* ends with, None for a message that names no position.
ParseError(text, cited) == [t |-> "ParseError", message |-> text, cited |-> cited]

\* Parser.__init__; statements is the local list of parse.
Parser(tokens) == [tokens |-> tokens, index |-> 0, statements |-> <<>>]

\* What stands for tokens[index] when index is past the end of the list:
\* no test of the parser matches it.
Beyond == Token("", "", None)

\* Parser._peek
Parser_peek(p) == IF p.index < Len(p.tokens) THEN p.tokens[p.index + 1] ELSE Beyond

\* Parser._previous (tokens[-1] is the last token)
_previous(p) == IF p.index = 0 THEN p.tokens[Len(p.tokens)] ELSE p.tokens[p.index]

\* Parser._advance: the parser after it (the token returned is _peek before)
Parser_advance(p) == [p EXCEPT !.index = @ + 1]

Parsed(p, node) == [p |-> p, sig |-> Normal, node |-> node]
\* raise: tokens[index] past the end of the list has raised the IndexError
\* of the host before any ParseError could be.
Fail(p, sig) ==
    [p |-> p, sig |-> IF p.index < Len(p.tokens) THEN sig ELSE PyError("IndexError"),
     node |-> None]

\* Parser._check
_check(p, kind) == Parser_peek(p).kind = kind

\* Parser._check_punct
_check_punct(p, punct) == _check(p, "PUNCT") /\ Parser_peek(p).value = punct

\* Parser._match .. Parser._match_punct: the value returned; the parser
\* after a match is Parser_advance(p).
_match(p, kind) == _check(p, kind)
_match_keyword(p, keyword) == _check(p, "KEYWORD") /\ Parser_peek(p).value = keyword
_match_op(p, op) == _check(p, "OP") /\ Parser_peek(p).value = op
_match_ops(p, ops) == _check(p, "OP") /\ Parser_peek(p).value \in ops
_match_punct(p, punct) == _check(p, "PUNCT") /\ Parser_peek(p).value = punct

\* A _consume_optional that consumes whatever comes next.
_consume_optional_any(p, punct) == Parser_advance(p)

\* Parser._consume_optional
_consume_optional(p, punct) == IF _check_punct(p, punct) THEN Parser_advance(p) ELSE p

\* Parser._consume_ident
_consume_ident(p, message) ==
    IF _check(p, "IDENT") THEN Parsed(Parser_advance(p), Parser_peek(p))
    ELSE Fail(p, ParseError(message, Parser_peek(p).span))

\* Parser._consume_punct
_consume_punct(p, punct) ==
    IF _check(p, "PUNCT") /\ Parser_peek(p).value = punct
    THEN Parsed(Parser_advance(p), Parser_peek(p))
    ELSE Fail(p, ParseError("Expected '" \o punct \o "'", Parser_peek(p).span))

\* The characters of the number lexemes of the model.
Spelling(text) ==
    CASE text = "1" -> <<"1">>
      [] text = "12" -> <<"1", "2">>
      [] text = "1." -> <<"1", ".">>
      [] text = "1.5" -> <<"1", ".", "5">>
      [] text = "1.2.3" -> <<"1", ".", "2", ".", "3">>

DigitValue(ch) ==
    CASE ch = "0" -> 0 [] ch = "1" -> 1 [] ch = "2" -> 2 [] ch = "3" -> 3 [] ch = "4" -> 4
      [] ch = "5" -> 5 [] ch = "6" -> 6 [] ch = "7" -> 7 [] ch = "8" -> 8 [] ch = "9" -> 9
RECURSIVE Decimal(_), Power(_, _)
\* The number a sequence of digits writes in base ten.
Decimal(chars) ==
    IF chars = <<>> THEN 0
    ELSE 10 * Decimal(SubSeq(chars, 1, Len(chars) - 1)) + DigitValue(chars[Len(chars)])
Power(b, n) == IF n = 0 THEN 1 ELSE b * Power(b, n - 1)
Dots(chars) == {i \in DOMAIN chars : chars[i] = "."}

\* float(text) if "." in text else int(text), for a text of digits and dots
\* that starts with a digit: a text with two dots is no float.
number(text) ==
    LET chars == Spelling(text)
        dot == CHOOSE i \in Dots(chars) : TRUE
        fraction == SubSeq(chars, dot + 1, Len(chars))
    IN  IF Dots(chars) = {} THEN [sig |-> Normal, value |-> IntV(Decimal(chars))]
        ELSE IF Cardinality(Dots(chars)) > 1
        THEN [sig |-> PyError("ValueError"), value |-> Null]
        ELSE [sig |-> Normal,
              value |-> PyFloat(Decimal(SubSeq(chars, 1, dot - 1)) * Power(10, Len(fraction))
                                    + Decimal(fraction),
                                Power(10, Len(fraction)))]

\* The operators of the six loops from _or to _factor, in that order.
LevelOps == <<{"||"}, {"&&"}, {"==", "!="}, {"<", "<=", ">", ">="}, {"+", "-"},
              {"*", "/", "%"}>>

RECURSIVE _statement(_), block_loop(_, _), _block_stmt(_), _var_decl(_), _function_decl(_),
          _if_stmt(_), _while_stmt(_), _return_stmt(_), _try_stmt(_), _throw_stmt(_),
          _expression(_), _assignment(_), _level(_, _), _level_loop(_, _, _),
          _level_loop_right(_, _, _), _unary(_), Parser_call(_), call_loop(_, _),
          expression_list(_, _), more_expressions(_, _), object_pairs(_, _),
          more_parameters(_, _), _primary(_), _function_expr(_, _)

\* Parser._statement
_statement(p) ==
    IF _match_keyword(p, "obj") THEN _var_decl(Parser_advance(p))
    ELSE IF _match_keyword(p, "function") THEN _function_decl(Parser_advance(p))
    ELSE IF _match_keyword(p, "if") THEN _if_stmt(Parser_advance(p))
    ELSE IF _match_keyword(p, "while") THEN _while_stmt(Parser_advance(p))
    ELSE IF _match_keyword(p, "return") THEN _return_stmt(Parser_advance(p))
    ELSE IF _match_keyword(p, "try") THEN _try_stmt(Parser_advance(p))
    ELSE IF _match_keyword(p, "throw") THEN _throw_stmt(Parser_advance(p))
    ELSE IF _match_punct(p, "{") THEN _block_stmt(Parser_advance(p))
    ELSE Then(_expression(p), LAMBDA e :
             Parsed(_consume_optional(e.p, ";"), ExpressionStmt(e.node, e.node.span)))

\* while not self._check_punct("}") and not self._check("EOF"): ...
block_loop(p, statements) ==
    IF ~_check_punct(p, "}") /\ ~_check(p, "EOF")
    THEN Then(_statement(p), LAMBDA s : block_loop(s.p, Append(statements, s.node)))
    ELSE Parsed(p, statements)

\* Parser._block_stmt
_block_stmt(p) ==
    Then(block_loop(p, <<>>), LAMBDA b :
    Then(_consume_punct(b.p, "}"), LAMBDA c :
    Parsed(c.p, BlockStmt(b.node, _previous(p).span))))

\* Parser._var_decl
_var_decl(p) ==
    Then(_consume_ident(p, "Expected variable name after 'obj'"), LAMBDA name :
    Then(IF _match_op(name.p, "=") THEN _expression(Parser_advance(name.p))
         ELSE Parsed(name.p, None), LAMBDA init :
    Parsed(_consume_optional(init.p, ";"),
           VarDecl(name.node.value, init.node, name.node.span))))

\* Parser._function_decl
_function_decl(p) ==
    Then(_consume_ident(p, "Expected function name"), LAMBDA name :
    Then(_function_expr(name.p, name.node.value), LAMBDA expr :
    Parsed(_consume_optional(expr.p, ";"),
           VarDecl(name.node.value, expr.node, name.node.span))))

\* Parser._if_stmt
_if_stmt(p) ==
    Then(_expression(p), LAMBDA condition :
    Then(_consume_punct(condition.p, "{"), LAMBDA open :
    Then(_block_stmt(open.p), LAMBDA then_branch :
    Then(IF _match_keyword(then_branch.p, "else")
         THEN Bind(Parser_advance(then_branch.p), LAMBDA q :
                  IF _match_keyword(q, "if") THEN _if_stmt(Parser_advance(q))
                  ELSE IF _match_punct(q, "{") THEN _block_stmt(Parser_advance(q))
                  ELSE Fail(q, ParseError("Expected 'if' or block after else", None)))
         ELSE Parsed(then_branch.p, None), LAMBDA else_branch :
    Parsed(else_branch.p, IfStmt(condition.node, then_branch.node, else_branch.node,
                                 condition.node.span))))))

\* Parser._while_stmt
_while_stmt(p) ==
    Then(_expression(p), LAMBDA condition :
    Then(_consume_punct(condition.p, "{"), LAMBDA open :
    Then(_block_stmt(open.p), LAMBDA body :
    Parsed(body.p, WhileStmt(condition.node, body.node, condition.node.span)))))

\* Parser._return_stmt
_return_stmt(p) ==
    Then(IF _check_punct(p, ";") \/ _check(p, "EOF") \/ _check_punct(p, "}")
         THEN Parsed(p, None)
         ELSE _expression(p), LAMBDA value :
    Bind(_consume_optional(value.p, ";"), LAMBDA q :
    Parsed(q, ReturnStmt(value.node, IF value.node /= None THEN value.node.span
                                     ELSE _previous(q).span))))

\* Parser._try_stmt
_try_stmt(p) ==
    Then(_consume_punct(p, "{"), LAMBDA open :
    Then(_block_stmt(open.p), LAMBDA try_block :
    Then(IF _match_keyword(try_block.p, "catch")
         THEN Then(_consume_ident(Parser_advance(try_block.p), "Expected name after catch"),
                   LAMBDA name :
              Then(_consume_punct(name.p, "{"), LAMBDA copen :
              Then(_block_stmt(copen.p), LAMBDA block :
              Parsed(block.p, [name |-> name.node.value, block |-> block.node]))))
         ELSE Parsed(try_block.p, [name |-> None, block |-> None]), LAMBDA catch :
    Then(IF _match_keyword(catch.p, "finally")
         THEN Then(_consume_punct(Parser_advance(catch.p), "{"), LAMBDA fopen :
                   _block_stmt(fopen.p))
         ELSE Parsed(catch.p, None), LAMBDA finally_block :
    IF catch.node.block = None /\ finally_block.node = None
    THEN Fail(finally_block.p, ParseError("try must have catch or finally", None))
    ELSE Parsed(finally_block.p,
                TryStmt(try_block.node, catch.node.name, catch.node.block,
                        finally_block.node, _previous(p).span))))))

\* Parser._throw_stmt
_throw_stmt(p) ==
    Then(_expression(p), LAMBDA value :
    Parsed(_consume_optional(value.p, ";"), ThrowStmt(value.node, value.node.span)))

\* Parser._expression
_expression(p) == _assignment(p)

\* Parser._assignment; Parser._or is _level(1, p)
_assignment(p) ==
    Then(_level(1, p), LAMBDA expr :
    IF _match_op(expr.p, "=")
    THEN Then(_assignment(Parser_advance(expr.p)), LAMBDA value :
             Parsed(value.p, AssignExpr(expr.node, value.node, expr.node.span)))
    ELSE expr)

\* A loop that takes as right operand all that follows at its own level.
_level_loop_right(n, p, expr) ==
    IF _match_ops(p, LevelOps[n])
    THEN Then(_level(n, Parser_advance(p)), LAMBDA right :
             _level_loop_right(n, right.p,
                               BinaryExpr(expr, Parser_peek(p).value, right.node, expr.span)))
    ELSE Parsed(p, expr)

\* The loop of Parser._or (n = 1), _and, _equality, _comparison, _term and
\* _factor (n = 6): while self._match_ops(...): op, right operand, BinaryExpr
_level_loop(n, p, expr) ==
    IF _match_ops(p, LevelOps[n])
    THEN Then(_level(n + 1, Parser_advance(p)), LAMBDA right :
             _level_loop(n, right.p,
                         BinaryExpr(expr, Parser_peek(p).value, right.node, expr.span)))
    ELSE Parsed(p, expr)

\* Parser._or (n = 1) .. Parser._factor (n = 6); past them, Parser._unary
_level(n, p) ==
    IF n > Len(LevelOps) THEN _unary(p)
    ELSE Then(_level(n + 1, p), LAMBDA expr : _level_loop(n, expr.p, expr.node))

\* Parser._unary
_unary(p) ==
    IF _match_ops(p, {"!", "-"})
    THEN Then(_unary(Parser_advance(p)), LAMBDA right :
             Parsed(right.p, UnaryExpr(Parser_peek(p).value, right.node, right.node.span)))
    ELSE Parser_call(p)

\* args.append(self._expression()); while self._match_punct(","): ...
more_expressions(p, exprs) ==
    Then(_expression(p), LAMBDA e :
    IF _match_punct(e.p, ",") THEN more_expressions(Parser_advance(e.p), Append(exprs, e.node))
    ELSE Parsed(e.p, Append(exprs, e.node)))

\* The arguments of a call and the items of an array, up to the closing
\* punctuation, which is consumed; the node is <<list, closing token>>.
expression_list(p, closer) ==
    Then(IF ~_check_punct(p, closer) THEN more_expressions(p, <<>>) ELSE Parsed(p, <<>>),
         LAMBDA list :
    Then(_consume_punct(list.p, closer), LAMBDA end :
    Parsed(end.p, [list |-> list.node, end |-> end.node])))

\* The loop of Parser._call
call_loop(p, expr) ==
    IF _match_punct(p, "(")
    THEN Then(expression_list(Parser_advance(p), ")"), LAMBDA args :
             call_loop(args.p, CallExpr(expr, args.node.list, args.node.end.span)))
    ELSE IF _match_op(p, ".")
    THEN Then(_consume_ident(Parser_advance(p), "Expected property name after '.'"),
              LAMBDA name :
             call_loop(name.p, MemberExpr(expr, name.node.value, name.node.span)))
    ELSE IF _match_punct(p, "[")
    THEN Then(_expression(Parser_advance(p)), LAMBDA index :
         Then(_consume_punct(index.p, "]"), LAMBDA close :
             call_loop(close.p, IndexExpr(expr, index.node, index.node.span))))
    ELSE Parsed(p, expr)

\* Parser._call
Parser_call(p) == Then(_primary(p), LAMBDA expr : call_loop(expr.p, expr.node))

\* The loop over the pairs of an object literal
object_pairs(p, pairs) ==
    Then(_consume_ident(p, "Expected identifier key in object literal"), LAMBDA key :
    Then(_consume_punct(key.p, ":"), LAMBDA colon :
    Then(_expression(colon.p), LAMBDA value :
    IF _match_punct(value.p, ",")
    THEN object_pairs(Parser_advance(value.p), Append(pairs, <<key.node.value, value.node>>))
    ELSE Parsed(value.p, Append(pairs, <<key.node.value, value.node>>)))))

\* Parser._primary
_primary(p) ==
    IF _match(p, "NUMBER")
    THEN IF number(Parser_peek(p).value).sig /= Normal
         THEN Fail(Parser_advance(p), number(Parser_peek(p).value).sig)
         ELSE Parsed(Parser_advance(p),
                     Literal(number(Parser_peek(p).value).value, Parser_peek(p).span))
    ELSE IF _match(p, "STRING")
    THEN Parsed(Parser_advance(p), Literal(StrV(Parser_peek(p).value), Parser_peek(p).span))
    ELSE IF _match_keyword(p, "true")
    THEN Parsed(Parser_advance(p), Literal(BoolV(TRUE), Parser_peek(p).span))
    ELSE IF _match_keyword(p, "false")
    THEN Parsed(Parser_advance(p), Literal(BoolV(FALSE), Parser_peek(p).span))
    ELSE IF _match_keyword(p, "null")
    THEN Parsed(Parser_advance(p), Literal(Null, Parser_peek(p).span))
    ELSE IF _match_punct(p, "[")
    THEN Then(expression_list(Parser_advance(p), "]"), LAMBDA items :
             Parsed(items.p, ArrayLiteral(items.node.list, items.node.end.span)))
    ELSE IF _match_punct(p, "{")
    THEN Then(IF ~_check_punct(Parser_advance(p), "}")
              THEN object_pairs(Parser_advance(p), <<>>)
              ELSE Parsed(Parser_advance(p), <<>>), LAMBDA pairs :
         Then(_consume_punct(pairs.p, "}"), LAMBDA end :
             Parsed(end.p, ObjectLiteral(pairs.node, end.node.span))))
    ELSE IF _match_keyword(p, "function") THEN _function_expr(Parser_advance(p), NoName)
    ELSE IF _match(p, "IDENT")
    THEN Parsed(Parser_advance(p), Identifier(Parser_peek(p).value, Parser_peek(p).span))
    ELSE IF _match_punct(p, "(")
    THEN Then(_expression(Parser_advance(p)), LAMBDA expr :
         Then(_consume_punct(expr.p, ")"), LAMBDA close : Parsed(close.p, expr.node)))
    ELSE Fail(p, ParseError("Unexpected token", Parser_peek(p).span))

\* params.append(self._consume_ident(...)); while self._match_punct(","): ...
more_parameters(p, params) ==
    Then(_consume_ident(p, "Expected parameter name"), LAMBDA name :
    IF _match_punct(name.p, ",")
    THEN more_parameters(Parser_advance(name.p), Append(params, name.node.value))
    ELSE Parsed(name.p, Append(params, name.node.value)))

\* Parser._function_expr; name is the value of name_token, NoName for None
_function_expr(p, name) ==
    Then(_consume_punct(p, "("), LAMBDA open :
    Then(IF ~_check_punct(open.p, ")") THEN more_parameters(open.p, <<>>)
         ELSE Parsed(open.p, <<>>), LAMBDA params :
    Then(_consume_punct(params.p, ")"), LAMBDA close :
    Then(_consume_punct(close.p, "{"), LAMBDA brace :
    Then(_block_stmt(brace.p), LAMBDA body :
    Parsed(body.p, FunctionExpr(name, params.node, body.node.statements,
                                body.node.span)))))))

(***************************************************************************)
(* Token lists handed to the parser.  A word is a token without its span;  *)
(* the spans of a list put three tokens on a line.                         *)
(***************************************************************************)
Word(kind, value) == [kind |-> kind, value |-> value]
Kw(value) == Word("KEYWORD", value)
Name(value) == Word("IDENT", value)
Op(value) == Word("OP", value)
Pt(value) == Word("PUNCT", value)
Nb(value) == Word("NUMBER", value)

SpanOf(i) == SourceSpan(1 + (i - 1) \div 3, 1 + 2 * ((i - 1) % 3))
\* The tokens of a list of words, the end-of-input token after them.
Tokens(words) ==
    [i \in 1 .. Len(words) + 1 |->
        IF i <= Len(words) THEN Token(words[i].kind, words[i].value, SpanOf(i))
        ELSE Token("EOF", "", SpanOf(i))]

BinaryWords == {Op(op) : op \in BinaryOps}
Vocabulary ==
    {Kw(k) : k \in {"obj", "function", "if", "else", "while", "return", "try", "catch",
                    "finally", "throw", "true", "null"}}
    \cup {Name("a"), Nb("1"), Nb("1.5"), Nb("1.2.3"), Word("STRING", "a")}
    \cup {Op(op) : op \in {"=", "||", "&&", "==", "<", "+", "-", "*", "!", "."}}
    \cup {Pt(c) : c \in Punctuation}

\* Any words at all.
Free == UNION {[1 .. n -> Vocabulary] : n \in 0 .. MaxTokens}

\* a op b op c op d: operands joined by binary operators and assignments.
Operand == <<Name("a"), Name("b"), Name("c"), Name("d"), Name("e")>>
ChainOf(ops) ==
    [i \in 1 .. 2 * Len(ops) + 1 |-> IF i % 2 = 1 THEN Operand[(i + 1) \div 2]
                                     ELSE ops[i \div 2]]
Chains == {ChainOf(ops) : ops \in UNION {[1 .. n -> BinaryWords \cup {Op("=")}] :
                                          n \in 1 .. MaxOperators}}

\* Two operands with unary operators before and postfix forms after them.
Prefixes == {<<>>, <<Op("-")>>, <<Op("!")>>, <<Op("-"), Op("!")>>}
Postfixes == {<<>>, <<Op("."), Name("p")>>, <<Pt("("), Pt(")")>>,
              <<Pt("["), Name("i"), Pt("]")>>, <<Op("."), Name("p"), Pt("("), Pt(")")>>}
Decorated ==
    {pre1 \o <<Name("a")>> \o post1 \o <<op>> \o pre2 \o <<Name("b")>> \o post2 :
         pre1 \in Prefixes, post1 \in Postfixes, op \in BinaryWords \cup {Op("=")},
         pre2 \in Prefixes, post2 \in Postfixes}

\* Programs of every statement form.
\*  obj a = 1.5;                     function a(a, a) { return a; }
\*  if a { } else if a { } else { }  while a { a = a + 1; }
\*  try { throw a; } catch a { } finally { }      try { } finally { }
\*  a.a(a, 1)[a];                    obj a = {a: 1, a: [a, "a"]};
\*  return                           obj a = 1.2.3;
Bases ==
    {<<Kw("obj"), Name("a"), Op("="), Nb("1.5"), Pt(";")>>,
     <<Kw("function"), Name("a"), Pt("("), Name("a"), Pt(","), Name("a"), Pt(")"), Pt("{"),
       Kw("return"), Name("a"), Pt(";"), Pt("}")>>,
     <<Kw("if"), Name("a"), Pt("{"), Pt("}"), Kw("else"), Kw("if"), Name("a"), Pt("{"),
       Pt("}"), Kw("else"), Pt("{"), Pt("}")>>,
     <<Kw("while"), Name("a"), Pt("{"), Name("a"), Op("="), Name("a"), Op("+"), Nb("1"),
       Pt(";"), Pt("}")>>,
     <<Kw("try"), Pt("{"), Kw("throw"), Name("a"), Pt(";"), Pt("}"), Kw("catch"), Name("a"),
       Pt("{"), Pt("}"), Kw("finally"), Pt("{"), Pt("}")>>,
     <<Kw("try"), Pt("{"), Pt("}"), Kw("finally"), Pt("{"), Pt("}")>>,
     <<Name("a"), Op("."), Name("a"), Pt("("), Name("a"), Pt(","), Nb("1"), Pt(")"),
       Pt("["), Name("a"), Pt("]"), Pt(";")>>,
     <<Kw("obj"), Name("a"), Op("="), Pt("{"), Name("a"), Pt(":"), Nb("1"), Pt(","),
       Name("a"), Pt(":"), Pt("["), Name("a"), Pt(","), Word("STRING", "a"), Pt("]"),
       Pt("}"), Pt(";")>>,
     <<Kw("return")>>,
     <<Kw("obj"), Name("a"), Op("="), Nb("1.2.3"), Pt(";")>>}
\* A program cut short, and a program with one word missing.
Without(words, i) == SubSeq(words, 1, i - 1) \o SubSeq(words, i + 1, Len(words))
Edited ==
    UNION {{SubSeq(words, 1, n) : n \in 0 .. Len(words)}
           \cup {Without(words, i) : i \in 1 .. Len(words)} : words \in Bases}

Inputs == [free |-> Free, chain |-> Chains, decorated |-> Decorated, edited |-> Edited]

\* Parser(tokens), parse entered; last records how the tokens were drawn.
InitParse ==
    /\ mode = "parse"
    /\ program = <<>>
    /\ \E family \in DOMAIN Inputs :
           /\ last = [op |-> "input", family |-> family]
           /\ st \in {Parser(Tokens(words)) : words \in Inputs[family]}
    /\ result = Running
    /\ exitcode = run(Running)

\* One iteration of the loop of parse.
ParseStatement ==
    /\ result = Running
    /\ ~_check(st, "EOF")
    /\ Bind(_statement(st), LAMBDA r :
           IF r.sig = Normal
           THEN /\ st' = [r.p EXCEPT !.statements = Append(@, r.node)]
                /\ UNCHANGED <<result, exitcode>>
           ELSE /\ st' = r.p
                /\ result' = r.sig
                /\ exitcode' = run(r.sig))
    /\ UNCHANGED <<mode, program, last>>

\* The loop condition is false: return Program(statements); run goes on
\* to the interpreter.
ParseReturn ==
    /\ result = Running
    /\ _check(st, "EOF")
    /\ result' = Returned
    /\ program' = Program(st.statements).statements
    /\ UNCHANGED <<mode, st, exitcode, last>>

ParseNext == ParseStatement \/ ParseReturn

ParseSpec == InitParse /\ [][ParseNext]_vars

(***************************************************************************)
(* Outcomes of parse                                                       *)
(***************************************************************************)
Parsing == mode = "parse"
\* The token the parser stopped at.
Offending == Parser_peek(st)

\* C26: parse either returns a Program or fails with a ParseError whose
\* message cites the line:column of the offending token; so for a try with
\* neither catch nor finally, an else followed by neither if nor a block, a
\* missing punctuation, an unexpected token and a number lexeme that is no
\* number (one with two dots).
ProgramOrParseError ==
    Parsing =>
        /\ result.t \in {"running", "returned", "ParseError"}
        /\ result.t = "ParseError" => result.cited = Offending.span

Unplaced == {"try must have catch or finally", "Expected 'if' or block after else"}
\* What the code does: two messages name no position, and a number lexeme
\* with two dots raises the ValueError of float, which leaves run.
ProgramOrParseErrorOrValueError ==
    Parsing =>
        /\ result.t \in {"running", "returned", "ParseError", "PyError"}
        /\ result.t = "ParseError" =>
               /\ exitcode = [t |-> "return", code |-> 1]
               /\ IF result.message \in Unplaced THEN result.cited = None
                  ELSE result.cited = Offending.span
        /\ result.t = "PyError" =>
               /\ result = PyError("ValueError")
               /\ exitcode = [t |-> "raise", exc |-> "ValueError"]
               /\ _previous(st).kind = "NUMBER"
               /\ Cardinality(Dots(Spelling(_previous(st).value))) > 1

\* try { } fails with a message that names no position, obj a = 1.2.3;
\* with a ValueError.
UnplacedWitness ==
    /\ Parsing
    /\ \/ /\ st.tokens = Tokens(<<Kw("try"), Pt("{"), Pt("}")>>)
          /\ result = ParseError("try must have catch or finally", None)
       \/ /\ st.tokens = Tokens(<<Kw("obj"), Name("a"), Op("="), Nb("1.2.3"), Pt(";")>>)
          /\ result = PyError("ValueError")

(***************************************************************************)
(* Precedence and associativity                                            *)
(***************************************************************************)
RECURSIVE Shape(_), ShapeOfList(_), Grouping(_), OperandText(_)
\* An expression written with every operator application in parentheses.
Shape(node) ==
    CASE node.type = "Identifier" -> node.name
      [] node.type = "MemberExpr" -> Shape(node.obj) \o "." \o node.name
      [] node.type = "CallExpr" -> Shape(node.callee) \o "(" \o ShapeOfList(node.args) \o ")"
      [] node.type = "IndexExpr" -> Shape(node.obj) \o "[" \o Shape(node.index) \o "]"
      [] node.type = "UnaryExpr" -> "(" \o node.op \o Shape(node.right) \o ")"
      [] node.type = "BinaryExpr" ->
           "(" \o Shape(node.left) \o " " \o node.op \o " " \o Shape(node.right) \o ")"
      [] node.type = "AssignExpr" ->
           "(" \o Shape(node.target) \o " = " \o Shape(node.value) \o ")"
ShapeOfList(nodes) ==
    IF nodes = <<>> THEN ""
    ELSE IF Len(nodes) = 1 THEN Shape(nodes[1])
    ELSE Shape(nodes[1]) \o "," \o ShapeOfList(Tail(nodes))

\* The order of the manual, loosest first; only assignment groups to the right.
PrecedenceOrder == <<{"="}, {"||"}, {"&&"}, {"==", "!="}, {"<", "<=", ">", ">="},
                     {"+", "-"}, {"*", "/", "%"}>>
Rank(op) == CHOOSE n \in DOMAIN PrecedenceOrder : op \in PrecedenceOrder[n]
GroupsRight(op) == op = "="
\* The places of a token list where a binary operator stands: after the
\* end of an operand.
BinaryAt(toks) ==
    {j \in 2 .. Len(toks) :
        /\ toks[j].kind = "OP" /\ toks[j].value \in UNION {PrecedenceOrder[n] :
                                                             n \in DOMAIN PrecedenceOrder}
        /\ \/ toks[j - 1].kind = "IDENT"
           \/ toks[j - 1].kind = "PUNCT" /\ toks[j - 1].value \in {")", "]"}}
\* An operand: unary operators apply to all that follows them, postfix
\* forms to what precedes them.
OperandText(toks) ==
    IF toks = <<>> THEN ""
    ELSE IF toks[1].kind = "OP" /\ toks[1].value \in {"-", "!"}
    THEN "(" \o toks[1].value \o OperandText(Tail(toks)) \o ")"
    ELSE toks[1].value \o OperandText(Tail(toks))
\* The grouping the precedence order gives to a token list: it is split at
\* the loosest of its binary operators, the last one of that rank, the
\* first one for assignment.
Grouping(toks) ==
    IF BinaryAt(toks) = {} THEN OperandText(toks)
    ELSE LET loosest == {j \in BinaryAt(toks) :
                            \A k \in BinaryAt(toks) : Rank(toks[j].value) <= Rank(toks[k].value)}
             at == IF GroupsRight(toks[CHOOSE j \in loosest : TRUE].value)
                   THEN CHOOSE j \in loosest : \A k \in loosest : j <= k
                   ELSE CHOOSE j \in loosest : \A k \in loosest : j >= k
         IN  "(" \o Grouping(SubSeq(toks, 1, at - 1)) \o " " \o toks[at].value \o " "
                 \o Grouping(SubSeq(toks, at + 1, Len(toks))) \o ")"

\* The words of the token list of the parser.
WordsOf(tokens) == [i \in 1 .. Len(tokens) - 1 |-> Word(tokens[i].kind, tokens[i].value)]
\* The token list is one expression of operands and binary operators.
ExpressionGiven == Parsing /\ last.family \in {"chain", "decorated"}
ExpressionParsed == ExpressionGiven /\ st.statements /= <<>>

\* C27: the AST groups the operators of an expression by the precedence
\* order assignment < || < && < equality < comparison < additive <
\* multiplicative < unary < postfix, equal-precedence binary operators to
\* the left and assignment to the right.
PrecedenceAndAssociativity ==
    ExpressionGiven =>
        /\ result.t \in {"running", "returned"}
        /\ ExpressionParsed =>
               /\ Len(st.statements) = 1
               /\ st.statements[1].type = "ExpressionStmt"
               /\ st.index = Len(st.tokens) - 1
               /\ Shape(st.statements[1].expr) =
                      Grouping(SubSeq(st.tokens, 1, Len(st.tokens) - 1))

\* a - b - c * d is parsed as ((a - b) - (c * d)).
GroupingWitness ==
    /\ ExpressionParsed
    /\ WordsOf(st.tokens) = ChainOf(<<Op("-"), Op("-"), Op("*")>>)
    /\ result = Returned
    /\ Shape(program[1].expr) = "((a - b) - (c * d))"

(***************************************************************************)
(* The index of the parser                                                 *)
(***************************************************************************)
\* The token list ends with its only end-of-input token (as Tokens builds it).
EndsWithOneEOF ==
    \A i \in DOMAIN st.tokens : (st.tokens[i].kind = "EOF") = (i = Len(st.tokens))

\* C28: for a token list that ends with its only end-of-input token, the
\* index of the parser stays within the list at every step of parse: the
\* end-of-input token is never consumed and no token past it is read,
\* whether parsing succeeds or fails.
IndexWithinTokens ==
    Parsing /\ EndsWithOneEOF =>
        /\ 0 <= st.index /\ st.index < Len(st.tokens)
        /\ result /= PyError("IndexError")
        /\ result = Returned => st.index = Len(st.tokens) - 1

\* The index never goes back, so that where it is after a statement bounds
\* where it was while the statement was parsed.
IndexNeverGoesBack == [][Parsing => st'.index >= st.index]_vars

\* return at the end of the input: the parser stops at the end-of-input
\* token, which _consume_optional leaves alone.
AtEndWitness ==
    /\ Parsing
    /\ st.tokens = Tokens(<<Kw("return")>>)
    /\ result = Returned
    /\ st.index = 1
    /\ Offending.kind = "EOF"

(***************************************************************************)
(* Programs that start a thread: the main thread declares, starts the      *)
(* thread and goes on with expression statements while target runs, one    *)
(* statement of target at a time.  The steps are those of a process that   *)
(* is running: what becomes of the thread when the process leaves is not   *)
(* part of the state.                                                      *)
(***************************************************************************)
\*  obj a = [1, 2];
\*  obj f = function() { a.push(7); return 7; };
Threaded ==
    <<VarDecl("a", ArrayLiteral(<<Num(1), Num(2)>>, At(1)), At(1)),
      VarDecl("f", FunctionExpr(NoName, <<>>,
                     <<ExpressionStmt(CallExpr(Member("a", "push"), <<Num(7)>>, At(2)), At(2)),
                       ReturnStmt(Num(7), At(2))>>, At(2)), At(2))>>

\* What thread.run is given: a user function, functions of the host that
\* take no argument, one that takes one, and a number.
Startable == {Id("f"), Member("a", "pop"), Member("console", "log"),
              Member("a", "push"), Num(5)}
\*  obj h = thread.run(fn);
Start(fn) == VarDecl("h", CallExpr(Member("thread", "run"), <<fn>>, At(3)), At(3))
Join == CallExpr(Member("h", "join"), <<>>, At(67))
\* What the main thread does while the thread runs.
Observations ==
    {Member("h", "done"), Member("h", "result"), Member("h", "error"), Join,
     CallExpr(Member("a", "push"), <<Num(5)>>, At(68)),
     CallExpr(Member("a", "pop"), <<>>, At(69))}

\* The threads started so far.
Threads(s) == {i \in DOMAIN s.heap : s.heap[i].kind = "thread"}
Started == Len(program) > Len(Threaded)

InitThread == mode = "thread" /\ InitAny

\* One iteration of the loop of interpret over the declarations.
DeclareThreaded ==
    /\ result = Running
    /\ Len(program) < Len(Threaded)
    /\ Bind(execute(Threaded[Len(program) + 1], st), LAMBDA r :
           /\ st' = r.st
           /\ result' = IF r.sig.t = "normal" THEN Running ELSE interpret_raises(r.sig))
    /\ exitcode' = run(result')
    /\ program' = Append(program, Threaded[Len(program) + 1])
    /\ UNCHANGED <<mode, last>>

\* The iteration that declares the handle: thread.run starts the thread.
Spawn(fn) ==
    /\ result = Running
    /\ Len(program) = Len(Threaded)
    /\ Bind(execute(Start(fn), st), LAMBDA r :
           /\ st' = r.st
           /\ last' = [op |-> "spawn", node |-> Start(fn), before |-> st,
                       sig |-> r.sig, val |-> r.val]
           /\ result' = IF r.sig.t = "normal" THEN Running ELSE interpret_raises(r.sig))
    /\ exitcode' = run(result')
    /\ program' = Append(program, Start(fn))
    /\ UNCHANGED mode

\* One iteration over an expression statement of the main thread.  A call
\* of join does not return before the thread has ended.
MainStep(expr) ==
    /\ result = Running
    /\ Started
    /\ Len(program) < Len(Threaded) + 1 + MaxOps
    /\ expr = Join => \A thread \in Threads(st) : ~is_alive(thread, st)
    /\ Bind(evaluate(expr, st), LAMBDA r :
           /\ st' = r.st
           /\ last' = [op |-> "probe", node |-> ExpressionStmt(expr, expr.span),
                       before |-> st, sig |-> r.sig, val |-> r.val]
           /\ result' = IF r.sig.t = "normal" THEN Running ELSE interpret_raises(r.sig))
    /\ exitcode' = run(result')
    /\ program' = Append(program, ExpressionStmt(expr, expr.span))
    /\ UNCHANGED mode

\* The statements of target, on the spawned thread.
TargetCall ==
    /\ \E thread \in Threads(st) :
           /\ st.heap[thread].pc = "started"
           /\ st' = target_call(thread, st)
    /\ UNCHANGED <<mode, program, result, exitcode, last>>

TargetStore ==
    /\ \E thread \in Threads(st) :
           /\ st.heap[thread].pc = "returned"
           /\ st' = target_store(thread, st)
    /\ UNCHANGED <<mode, program, result, exitcode, last>>

TargetDone ==
    /\ \E thread \in Threads(st) :
           /\ st.heap[thread].pc = "stored"
           /\ st' = target_done(thread, st)
    /\ UNCHANGED <<mode, program, result, exitcode, last>>

Target == TargetCall \/ TargetStore \/ TargetDone

ThreadNext ==
    \/ DeclareThreaded
    \/ \E fn \in Startable : Spawn(fn)
    \/ \E expr \in Observations : MainStep(expr)
    \/ TargetCall
    \/ TargetStore
    \/ TargetDone
    \/ Finish

ThreadSpec == InitThread /\ [][ThreadNext]_vars

\* A thread that has been started is scheduled until target has ended.
ThreadLive == ThreadSpec /\ WF_vars(Target)

(***************************************************************************)
(* The handle of a thread                                                  *)
(***************************************************************************)
Spawned == Threads(st) /= {}
\* What the handle of a thread holds under a key, in the state s.
Field(thread, key, s) == DictGet(s.heap[s.heap[thread].handle].entries, StrV(key))
IsDone(thread, s) == Field(thread, "done", s) = BoolV(TRUE)
Done == Spawned /\ \A thread \in Threads(st) : IsDone(thread, st)

\* done is true only once target has stored what the call of fn left:
\* result if it returned, error if it raised.
StoredBeforeDone ==
    \A thread \in Threads(st) :
        IsDone(thread, st) =>
            /\ st.heap[thread].pc = "ended"
            /\ IF st.heap[thread].outcome.t = "normal"
               THEN Field(thread, "result", st) = st.heap[thread].val
               ELSE Field(thread, "error", st) = str_exc(st.heap[thread].outcome)

\* In a step that makes done true, result or error was written before.
DoneAfterStore ==
    [][\A thread \in Threads(st) :
           ~IsDone(thread, st) /\ IsDone(thread, st') => st.heap[thread].pc = "stored"]_vars

\* The main thread has just returned from a call of h.join().
JoinReturned == last.op = "probe" /\ last.node.expr = Join /\ last.sig.t = "normal"

\* join returned in a state in which done was true, with handle.result.
JoinAfterDone ==
    JoinReturned =>
        \A thread \in Threads(last.before) :
            /\ IsDone(thread, last.before)
            /\ last.val = Field(thread, "result", last.before)

UserFunctionStarted == Spawned /\ \A thread \in Threads(st) : st.heap[thread].fn.k = "function"
\* The calls of user functions made so far.
BodiesRun == {i \in DOMAIN st.trace : st.trace[i].ev = "call"}

\* C30: after join has returned for a thread started on the zero-parameter
\* function f, the body of f has run, handle.result and the value of join
\* are the value f returns, and handle.error is null.
FunctionRunsOnThread ==
    JoinReturned /\ UserFunctionStarted =>
        /\ BodiesRun /= {}
        /\ last.val = IntV(7)
        /\ \A thread \in Threads(st) :
               /\ Field(thread, "result", st) = IntV(7)
               /\ Field(thread, "error", st) = Null

\* What the code does: the body of f never runs, result stays null and
\* error is the message of the host's TypeError.
FunctionNeverRuns ==
    UserFunctionStarted =>
        /\ BodiesRun = {}
        /\ \A thread \in Threads(st) :
               /\ Field(thread, "result", st) = Null
               /\ st.heap[thread].pc \in {"stored", "ended"} =>
                      Field(thread, "error", st) = StrV("TypeError")
        /\ JoinReturned => last.val = Null

\* join has returned for a thread started on f.
FunctionJoinedWitness == JoinReturned /\ UserFunctionStarted

====
